---- MODULE Spec2Model ----
(***************************************************************************)
(* Model of the pixapis service: the FastAPI route handlers of app/main.py *)
(* the official client of app/pixiv_api.py and the page scraper of         *)
(* app/scraper.py.  One request is in flight at a time; every upstream     *)
(* answer (OAuth server, app API, artwork page) is chosen by the           *)
(* environment from small sets (Spec).  The functions of app/utils.py and  *)
(* the parsers are also applied on their own to an argument drawn from a   *)
(* bounded set (SpecStat, SpecUrl, SpecParsers).                           *)
(***************************************************************************)
EXTENDS Integers, Sequences, FiniteSets, TLC

VARIABLES settings, api_client, pc, req, artwork, html, calls, response, api_result,
          fn, arg, ret

vars == <<settings, api_client, pc, req, artwork, html, calls, response, api_result,
          fn, arg, ret>>

(***************************************************************************)
(* Bounds of the model.                                                    *)
(***************************************************************************)
MaxPages == 2
ArtworkIds == {141}
\* the longest text given to parse_stat_number, the longest URL given to
\* the path-ID extractors
MaxStatLen == 4
MaxUrlLen == 4

\* main.py:129 related_data.get("illusts", [])[:10]
RelatedLimit == 10

(***************************************************************************)
(* Python values.  A str is a sequence of symbols (strings standing for    *)
(* one or more characters), "" is <<>>.  An Optional scalar is <<>> (None) *)
(* or <<v>>.  JSON values carry their type in the field name so that       *)
(* values of different types stay comparable.                              *)
(***************************************************************************)
None == <<>>
Some(v) == <<v>>

JAbsent == [absent |-> TRUE]
JNull == [null |-> TRUE]
JInt(n) == [int |-> n]
JStr(s) == [str |-> s]
JList(s) == [list |-> s]

IsInt(v) == DOMAIN v = {"int"}
IsStr(v) == DOMAIN v = {"str"}
IsList(v) == DOMAIN v = {"list"}

\* dict.get(key): a missing key reads as None
Get(d, k) == IF d[k] = JAbsent THEN JNull ELSE d[k]
\* dict.get(key, default): only a missing key takes the default
GetD(d, k, default) == IF d[k] = JAbsent THEN default ELSE d[k]

\* truth value of a JSON scalar or list
JTruthy(v) ==
    CASE IsInt(v) -> v.int # 0
      [] IsStr(v) -> v.str # <<>>
      [] IsList(v) -> v.list # <<>>
      [] OTHER -> FALSE

\* a or b
JOr(a, b) == IF JTruthy(a) THEN a ELSE b

\* truth value of an Optional[str] holding a one-symbol token
StrTruthy(o) == o # None /\ o[1] # ""

\* whether sub occurs in s at position i
MatchAt(s, sub, i) ==
    /\ i + Len(sub) - 1 <= Len(s)
    /\ \A j \in 1..Len(sub) : s[i + j - 1] = sub[j]

\* sub in s
Contains(s, sub) == \E i \in 1..(Len(s) + 1) : MatchAt(s, sub, i)

\* s.replace(old, new): every non-overlapping occurrence, left to right
RECURSIVE Replace(_, _, _)
Replace(s, old, new) ==
    IF s = <<>> THEN <<>>
    ELSE IF MatchAt(s, old, 1)
         THEN new \o Replace(SubSeq(s, Len(old) + 1, Len(s)), old, new)
         ELSE <<Head(s)>> \o Replace(Tail(s), old, new)

(***************************************************************************)
(* app/utils.py.  The texts these functions take are sequences of one      *)
(* character each, except that a path marker ("/users/", "/artworks/") is  *)
(* one symbol.                                                             *)
(***************************************************************************)
Digits == {"0", "1", "2", "3", "4", "5", "6", "7", "8", "9"}
Whitespace == {" "}

DigitValue(c) == CHOOSE n \in 0..9 : ToString(n) = c

IsDigits(s) == s # <<>> /\ \A i \in DOMAIN s : s[i] \in Digits

\* the number a run of decimal digits denotes
RECURSIVE IntOfDigits(_)
IntOfDigits(s) ==
    IF s = <<>> THEN 0
    ELSE 10 * IntOfDigits(SubSeq(s, 1, Len(s) - 1)) + DigitValue(s[Len(s)])

\* str.strip()
RECURSIVE LStrip(_)
LStrip(s) == IF s # <<>> /\ Head(s) \in Whitespace THEN LStrip(Tail(s)) ELSE s
RECURSIVE RStrip(_)
RStrip(s) ==
    IF s # <<>> /\ s[Len(s)] \in Whitespace THEN RStrip(SubSeq(s, 1, Len(s) - 1)) ELSE s
Strip(s) == RStrip(LStrip(s))

\* str.upper()
Upper(s) ==
    [i \in DOMAIN s |->
        CASE s[i] = "k" -> "K"
          [] s[i] = "m" -> "M"
          [] s[i] = "a" -> "A"
          [] OTHER -> s[i]]

\* the optional sign of a numeric literal
Signed(s) ==
    IF s # <<>> /\ Head(s) \in {"-", "+"}
    THEN [neg |-> Head(s) = "-", rest |-> Tail(s)]
    ELSE [neg |-> FALSE, rest |-> s]

\* int(text) of a str: blanks around, a sign, decimal digits; ValueError
\* for anything else
PyInt(s) ==
    LET t == Signed(Strip(s)) IN
    IF IsDigits(t.rest)
    THEN [raise |-> FALSE,
          n |-> IF t.neg THEN 0 - IntOfDigits(t.rest) ELSE IntOfDigits(t.rest)]
    ELSE [raise |-> TRUE, n |-> 0]

(***************************************************************************)
(* float: IEEE 754 binary64.  A float is its sign, the bits of its         *)
(* significand (the leading 1 first; none for zero) and the exponent of    *)
(* the leading bit.  Conversions round to nearest, ties to even.           *)
(***************************************************************************)
Precision == 53

\* the bits of n > 0, most significant first
RECURSIVE ToBits(_)
ToBits(n) == IF n = 0 THEN <<>> ELSE Append(ToBits(n \div 2), n % 2)

RECURSIVE BitsToInt(_)
BitsToInt(b) ==
    IF b = <<>> THEN 0 ELSE 2 * BitsToInt(SubSeq(b, 1, Len(b) - 1)) + b[Len(b)]

\* the first k bits of the binary fraction r / d (r < d) and what remains
\* (the first half of the bits, then the other half from what remained)
RECURSIVE FracBits(_, _, _)
FracBits(r, d, k) ==
    IF k = 0 THEN [bits |-> <<>>, r |-> r]
    ELSE IF k = 1 THEN [bits |-> <<(2 * r) \div d>>, r |-> (2 * r) % d]
    ELSE LET first == FracBits(r, d, k \div 2)
             rest == FracBits(first.r, d, k - k \div 2)
         IN  [bits |-> first.bits \o rest.bits, r |-> rest.r]

\* the number of zero bits the binary fraction r / d (0 < r < d) starts with
RECURSIVE LeadingZeros(_, _)
LeadingZeros(r, d) == IF 2 * r >= d THEN 0 ELSE 1 + LeadingZeros(2 * r, d)

RECURSIVE Pow(_, _)
Pow(b, n) == IF n = 0 THEN 1 ELSE b * Pow(b, n - 1)

\* bits + 1: the last 0 becomes 1 and the 1s after it 0; carry when there
\* is no 0
Increment(bits) ==
    LET zeros == {i \in DOMAIN bits : bits[i] = 0}
        last == CHOOSE i \in zeros : \A j \in zeros : j <= i
    IN  IF zeros = {} THEN [bits |-> [i \in DOMAIN bits |-> 0], carry |-> TRUE]
        ELSE [bits |-> [i \in DOMAIN bits |->
                           IF i < last THEN bits[i] ELSE IF i = last THEN 1 ELSE 0],
              carry |-> FALSE]

\* all (more than Precision bits, the leading 1 first; sticky: nonzero
\* beyond them) rounded to Precision bits; exp is the exponent of all[1]
RoundHalfEven(neg, all, sticky, exp) ==
    LET kept == SubSeq(all, 1, Precision)
        rest == sticky \/ \E i \in (Precision + 2)..Len(all) : all[i] = 1
        up == all[Precision + 1] = 1 /\ (rest \/ kept[Precision] = 1)
        inc == Increment(kept)
    IN  IF ~up THEN [neg |-> neg, bits |-> kept, exp |-> exp]
        ELSE IF inc.carry
        THEN [neg |-> neg, bits |-> <<1>> \o SubSeq(inc.bits, 1, Precision - 1), exp |-> exp + 1]
        ELSE [neg |-> neg, bits |-> inc.bits, exp |-> exp]

\* the float nearest to n / d
FloatOfRatio(neg, n, d) ==
    LET whole == ToBits(n \div d)
        r == n % d
    IN  IF n = 0 THEN [neg |-> neg, bits |-> <<>>, exp |-> 0]
        ELSE IF whole # <<>>
        THEN LET f == FracBits(r, d, Precision + 1 - Len(whole))
             IN  RoundHalfEven(neg, whole \o f.bits, f.r # 0, Len(whole) - 1)
        ELSE LET z == LeadingZeros(r, d)
                 f == FracBits(r * Pow(2, z), d, Precision + 1)
             IN  RoundHalfEven(neg, f.bits, f.r # 0, 0 - (z + 1))

\* bits (least significant first) times c, plus carry: as many bits of
\* the product, and the carry out of them (the lower half, then the upper)
RECURSIVE MulSmall(_, _, _)
MulSmall(bits, c, carry) ==
    IF bits = <<>> THEN [bits |-> <<>>, carry |-> carry]
    ELSE IF Len(bits) = 1
    THEN [bits |-> <<(bits[1] * c + carry) % 2>>, carry |-> (bits[1] * c + carry) \div 2]
    ELSE LET h == Len(bits) \div 2
             low == MulSmall(SubSeq(bits, 1, h), c, carry)
             high == MulSmall(SubSeq(bits, h + 1, Len(bits)), c, low.carry)
         IN  [bits |-> low.bits \o high.bits, carry |-> high.carry]

Reverse(s) == [i \in DOMAIN s |-> s[Len(s) + 1 - i]]

\* x * c for a float x and an integer c >= 2 that is a float itself
FloatTimes(x, c) ==
    IF x.bits = <<>> THEN x
    ELSE LET m == MulSmall(Reverse(x.bits), c, 0)
             product == ToBits(m.carry) \o Reverse(m.bits)
         IN  IF Len(product) <= Precision
             THEN [neg |-> x.neg, bits |-> product \o [i \in 1..(Precision - Len(product)) |-> 0],
                   exp |-> x.exp + Len(product) - Len(x.bits)]
             ELSE RoundHalfEven(x.neg, product, FALSE, x.exp + Len(product) - Len(x.bits))

\* int(x): truncation towards zero
FloatToInt(x) ==
    IF x.bits = <<>> \/ x.exp < 0 THEN 0
    ELSE LET n == BitsToInt(SubSeq(x.bits, 1, x.exp + 1))
         IN  IF x.neg THEN 0 - n ELSE n

\* float(text) of a str: blanks around, a sign, decimal digits with at most
\* one point and a digit on one side of it at least; ValueError otherwise
PyFloat(s) ==
    LET t == Signed(Strip(s))
        points == {i \in DOMAIN t.rest : t.rest[i] = "."}
        p == IF points = {} THEN Len(t.rest) + 1 ELSE CHOOSE i \in points : TRUE
        whole == SubSeq(t.rest, 1, p - 1)
        frac == SubSeq(t.rest, p + 1, Len(t.rest))
    IN  IF Cardinality(points) <= 1 /\ IsDigits(whole \o frac)
        THEN [raise |-> FALSE,
              x |-> FloatOfRatio(t.neg, IntOfDigits(whole \o frac), Pow(10, Len(frac)))]
        ELSE [raise |-> TRUE, x |-> [neg |-> FALSE, bits |-> <<>>, exp |-> 0]]

\* the K and M branches of parse_stat_number
Scaled(text, suffix, factor) ==
    LET num == PyFloat(Replace(Upper(text), <<suffix>>, <<>>))
    IN  IF num.raise THEN 0 ELSE FloatToInt(FloatTimes(num.x, factor))

Thousand == 1000
Million == 1000000

parse_stat_number(text) ==
    IF ~JTruthy(text) THEN 0
    ELSE LET t == Strip(Replace(text.str, <<",">>, <<>>)) IN
         IF Contains(Upper(t), <<"K">>) THEN Scaled(t, "K", Thousand)
         ELSE IF Contains(Upper(t), <<"M">>) THEN Scaled(t, "M", Million)
         ELSE IF PyInt(t).raise THEN 0 ELSE PyInt(t).n

\* re.search(marker + r'(\d+)', url): the leftmost place where the marker
\* is followed by a digit, and the longest run of digits from there
RECURSIVE DigitRun(_)
DigitRun(s) ==
    IF s # <<>> /\ Head(s) \in Digits THEN <<Head(s)>> \o DigitRun(Tail(s)) ELSE <<>>

\* mutant of Search: only the first occurrence of the marker is looked at
SearchFirstMarker(marker, url) ==
    LET marks == {i \in 1..Len(url) : url[i] = marker}
        first == CHOOSE i \in marks : \A j \in marks : i <= j
    IN  IF marks = {} \/ DigitRun(SubSeq(url, first + 1, Len(url))) = <<>> THEN None
        ELSE Some(DigitRun(SubSeq(url, first + 1, Len(url))))

Search(marker, url) ==
    LET hits == {i \in 1..(Len(url) - 1) : url[i] = marker /\ url[i + 1] \in Digits}
    IN  IF hits = {} THEN None
        ELSE LET first == CHOOSE i \in hits : \A j \in hits : i <= j
             IN  Some(DigitRun(SubSeq(url, first + 1, Len(url))))

extract_user_id_from_url(url) ==
    IF ~JTruthy(url) THEN 0
    ELSE LET match == Search("/users/", url.str)
         IN  IF match # None THEN IntOfDigits(match[1]) ELSE 0

extract_artwork_id_from_url(url) ==
    IF ~JTruthy(url) THEN None
    ELSE LET match == Search("/artworks/", url.str)
         IN  IF match # None THEN Some(IntOfDigits(match[1])) ELSE None

(***************************************************************************)
(* pydantic models (app/models.py).  A constructor that fails validation   *)
(* raises; the parsers below turn that into a null result.                 *)
(***************************************************************************)
NoArtwork == [none |-> TRUE]

\* HttpUrl: an http or https scheme followed by a host
IsHttpUrl(s) == Len(s) >= 2 /\ s[1] \in {"https://", "http://"} /\ s[2] # "/"

\* HttpUrl validation of a required URL field
ValidUrl(v) == IsStr(v) /\ IsHttpUrl(v.str)
\* HttpUrl validation of an Optional URL field
ValidOptUrl(v) == v = JNull \/ ValidUrl(v)

ImageInfo(url, thumbnail) ==
    [url |-> url.str, thumbnail |-> IF thumbnail = JNull THEN None ELSE Some(thumbnail.str)]

\* an int field (lax mode): an int, or a str that is an integer numeral
ValidInt(v) == IsInt(v) \/ (IsStr(v) /\ ~PyInt(v.str).raise)
IntValue(v) == IF IsInt(v) THEN v.int ELSE PyInt(v.str).n

\* an Optional[str] field as the record holds it
OptStr(v) == IF v = JNull THEN None ELSE Some(v.str)
ValidOptStr(v) == v = JNull \/ IsStr(v)

AuthorInfo(id, name, avatar_url) ==
    [id |-> IntValue(id), name |-> name.str,
     avatar_url |-> IF avatar_url = JNull THEN None ELSE Some(avatar_url.str)]

ValidAuthor(id, name, avatar_url) ==
    ValidInt(id) /\ IsStr(name) /\ ValidOptUrl(avatar_url)

ArtworkStats(likes, bookmarks, views) ==
    [likes |-> likes, bookmarks |-> bookmarks, views |-> views]

\* tags: List[str]
ValidTags(tags) == \A i \in DOMAIN tags : IsStr(tags[i])
TagList(tags) == [i \in DOMAIN tags |-> tags[i].str]

\* created_at is None or Some(datetime); description is None or Some(str)
ArtworkResponse(id, title, author, images, tags, stats, created_at, is_r18, page_count, description) ==
    [id |-> id, title |-> title, author |-> author, images |-> images, tags |-> tags,
     stats |-> stats, created_at |-> created_at, is_r18 |-> is_r18,
     page_count |-> page_count, description |-> description,
     related_artworks |-> <<>>]

\* the defaults a parser falls back to
Untitled == <<"Untitled">>
Unknown == <<"Unknown">>

\* the tag that marks adult content
R18 == <<"R-18">>

\* datetime.fromisoformat(text): a date and time, with a UTC offset or
\* without; None stands for ValueError
IsoDateTimes == {"2026-02-28T08:33:00"}
IsoOffsets == {"+00:00", "+09:00"}
fromisoformat(text) ==
    IF /\ Len(text) \in {1, 2}
       /\ text[1] \in IsoDateTimes
       /\ Len(text) = 2 => text[2] \in IsoOffsets
    THEN Some(text) ELSE None

\* what a try block comes to: it raised, or it returned value
Raise == [raise |-> TRUE, value |-> NoArtwork]
Return(value) == [raise |-> FALSE, value |-> value]

\* the outcome of a call that let an exception out
Raised == [raised |-> TRUE]

\* mutant of Caught: the exception leaves the parser
Uncaught(body) == IF body.raise THEN Raised ELSE body.value

\* "except Exception as e: logger.error(...); return None"
Caught(body) == IF body.raise THEN NoArtwork ELSE body.value

\* mutant of TruthyArtwork: a record without images counts as false
TruthyArtworkWithImages(a) == a # NoArtwork /\ a.images # <<>>

\* "if artwork:" - a pydantic model defines neither __bool__ nor __len__,
\* so every record is true and only None is false.
TruthyArtwork(a) == a # NoArtwork

(***************************************************************************)
(* PixivAppAPI (app/pixiv_api.py).                                         *)
(***************************************************************************)
NoClient == [none |-> TRUE]

PixivAppAPI(refresh_token) ==
    [refresh_token |-> refresh_token, access_token |-> None, user_id |-> None]

\* an entry of the request's call log: the operation invoked and whether
\* it returned a value (not None, no exception)
Call(op, ok) == [op |-> op, ok |-> ok]

\* auth(): resp is the OAuth server's answer: resp.raise for a transport
\* error or an error status, else the fields of result["response"] (None
\* for a missing key).  The three assignments happen one after the other; a
\* missing key raises KeyError at its own assignment.
auth(c, resp) ==
    IF ~StrTruthy(c.refresh_token)
    THEN [client |-> c, raised |-> TRUE, calls |-> <<>>]
    ELSE IF resp.raise \/ resp.access_token = None
    THEN [client |-> c, raised |-> TRUE, calls |-> <<Call("auth", FALSE)>>]
    ELSE LET c1 == [c EXCEPT !.access_token = resp.access_token] IN
         IF resp.refresh_token = None
         THEN [client |-> c1, raised |-> TRUE, calls |-> <<Call("auth", FALSE)>>]
         ELSE LET c2 == [c1 EXCEPT !.refresh_token = resp.refresh_token] IN
              IF resp.user_id = None
              THEN [client |-> c2, raised |-> TRUE, calls |-> <<Call("auth", FALSE)>>]
              ELSE [client |-> [c2 EXCEPT !.user_id = resp.user_id],
                    raised |-> FALSE, calls |-> <<Call("auth", TRUE)>>]

\* mutant of request: the request is sent at once, whatever token is held
requestWithoutAuth(c, op, authResp, http) ==
    [client |-> c, raised |-> http.raise, calls |-> <<Call(op, ~http.raise)>>]

\* _request(): authenticates first when no access token is held, then sends
\* the request; http is the upstream's answer: http.raise, or http.body.
request(c, op, authResp, http) ==
    LET a == IF ~StrTruthy(c.access_token) THEN auth(c, authResp)
             ELSE [client |-> c, raised |-> FALSE, calls |-> <<>>]
    IN  IF a.raised
        THEN [client |-> a.client, raised |-> TRUE, calls |-> a.calls]
        ELSE [client |-> a.client, raised |-> http.raise,
              calls |-> Append(a.calls, Call(op, ~http.raise))]

(***************************************************************************)
(* Official-API payloads.  An illust object is a record of the keys the    *)
(* parser reads; JAbsent marks a missing key, "other" says whether the     *)
(* object has keys the parser does not read (an error body, say).          *)
(* original is image_urls.original, large is image_urls.large,             *)
(* msp_original is meta_single_page.original_image_url, and meta_pages     *)
(* lists each page's image_urls.original.                                  *)
(***************************************************************************)
ApiKeys ==
    {"title", "page_count", "original", "large", "msp_original", "meta_pages", "user",
     "tags", "total_view", "total_bookmarks", "create_date", "x_restrict", "sanity_level",
     "caption"}

\* truth value of a dict: false when it has no key at all
DictTruthy(d, keys) ==
    /\ DOMAIN d # {"absent"}
    /\ DOMAIN d # {"null"}
    /\ (d.other \/ \E k \in keys : d[k] # JAbsent)

\* the ImageInfo entries built from a list of [url, thumbnail] values,
\* skipping those whose URL is falsy
RECURSIVE ImagesOf(_)
ImagesOf(items) ==
    IF items = <<>> THEN <<>>
    ELSE IF JTruthy(Head(items).url)
         THEN <<ImageInfo(Head(items).url, Head(items).thumbnail)>> \o ImagesOf(Tail(items))
         ELSE ImagesOf(Tail(items))

\* whether ImageInfo(url=..., thumbnail=...) validates for every entry built
AllValid(items) ==
    \A i \in 1..Len(items) :
        JTruthy(items[i].url) => ValidUrl(items[i].url) /\ ValidOptUrl(items[i].thumbnail)

Item(url, thumbnail) == [url |-> url, thumbnail |-> thumbnail]

\* the image branch of parse_artwork_from_api: the [url, thumbnail] values
\* it reads, or raise when it fails before building a record
ApiImageItems(illust, page_count) ==
    IF page_count = JInt(1)
    THEN LET original_url == JOr(Get(illust, "original"), Get(illust, "msp_original"))
         IN  [raise |-> FALSE, items |-> <<Item(original_url, Get(illust, "large"))>>]
    ELSE LET meta_pages == GetD(illust, "meta_pages", JList(<<>>))
         IN  IF ~IsList(meta_pages)
             THEN [raise |-> TRUE, items |-> <<>>]
             ELSE [raise |-> FALSE,
                   items |-> [i \in 1..Len(meta_pages.list) |->
                                 Item(meta_pages.list[i], JNull)]]

\* a JSON object of the keys given (the "user" object: id, name and
\* profile_image_urls.medium)
User(id, name, medium) == [id |-> id, name |-> name, medium |-> medium]
EmptyUser == User(JAbsent, JAbsent, JAbsent)
IsUser(v) == DOMAIN v = {"id", "name", "medium"}

\* the names of a tag list: entries holds each tag object's name (JAbsent:
\* a tag without name, JNull: an entry that is no object); raise for a list
\* that cannot be walked
RECURSIVE TruthyNames(_)
TruthyNames(entries) ==
    IF entries = <<>> THEN <<>>
    ELSE IF JTruthy(Head(entries)) THEN <<Head(entries)>> \o TruthyNames(Tail(entries))
    ELSE TruthyNames(Tail(entries))

TagNames(tags) ==
    IF ~IsList(tags) \/ \E i \in DOMAIN tags.list : tags.list[i] = JNull
    THEN [raise |-> TRUE, names |-> <<>>]
    ELSE [raise |-> FALSE, names |-> TruthyNames(tags.list)]

\* pixiv_api.py:383-389: a date that cannot be parsed (or is no str) leaves
\* created_at None
ApiCreatedAt(create_date) ==
    IF ~JTruthy(create_date) THEN None
    ELSE IF ~IsStr(create_date) THEN None
    ELSE fromisoformat(Replace(create_date.str, <<"Z">>, <<"+00:00">>))

SanityCutoff == 6

\* mutant of ApiIsR18: the sanity level has to exceed the cutoff
ApiIsR18AboveCutoff(illust) ==
    LET x_restrict == GetD(illust, "x_restrict", JInt(0))
        sanity_level == GetD(illust, "sanity_level", JInt(0))
    IN  IF ~IsInt(x_restrict) THEN [raise |-> TRUE, flag |-> FALSE]
        ELSE IF x_restrict.int > 0 THEN [raise |-> FALSE, flag |-> TRUE]
        ELSE IF ~IsInt(sanity_level) THEN [raise |-> TRUE, flag |-> FALSE]
        ELSE [raise |-> FALSE, flag |-> sanity_level.int > SanityCutoff]

\* pixiv_api.py:392: comparing None or a str with a number raises
ApiIsR18(illust) ==
    LET x_restrict == GetD(illust, "x_restrict", JInt(0))
        sanity_level == GetD(illust, "sanity_level", JInt(0))
    IN  IF ~IsInt(x_restrict) THEN [raise |-> TRUE, flag |-> FALSE]
        ELSE IF x_restrict.int > 0 THEN [raise |-> FALSE, flag |-> TRUE]
        ELSE IF ~IsInt(sanity_level) THEN [raise |-> TRUE, flag |-> FALSE]
        ELSE [raise |-> FALSE, flag |-> sanity_level.int >= SanityCutoff]

\* mutant of ApiStats: the payload has no like count, so likes is 0
ApiStatsWithoutLikes(total_view, total_bookmarks) ==
    ArtworkStats(0, IntValue(total_bookmarks), IntValue(total_view))

\* pixiv_api.py:376-380: likes=illust.get("total_view", 0), "API doesn't
\* expose like count directly"
ApiStats(total_view, total_bookmarks) ==
    ArtworkStats(IntValue(total_view), IntValue(total_bookmarks), IntValue(total_view))

\* the try block of parse_artwork_from_api
ApiTry(api_data, artwork_id) ==
    IF ~api_data.isdict THEN Raise
    ELSE LET illust == IF DictTruthy(api_data.illust, ApiKeys) THEN api_data.illust
                       ELSE api_data.top
         IN  IF ~DictTruthy(illust, ApiKeys) THEN Return(NoArtwork)
             ELSE LET user == GetD(illust, "user", EmptyUser)
                      id == IF IsUser(user) THEN GetD(user, "id", JInt(0)) ELSE JNull
                      name == IF IsUser(user) THEN GetD(user, "name", JStr(Unknown)) ELSE JNull
                      avatar_url == IF IsUser(user) THEN Get(user, "medium") ELSE JNull
                      page_count == GetD(illust, "page_count", JInt(1))
                      im == ApiImageItems(illust, page_count)
                      tags == TagNames(GetD(illust, "tags", JList(<<>>)))
                      total_view == GetD(illust, "total_view", JInt(0))
                      total_bookmarks == GetD(illust, "total_bookmarks", JInt(0))
                      is_r18 == ApiIsR18(illust)
                      title == GetD(illust, "title", JStr(Untitled))
                      caption == GetD(illust, "caption", JStr(<<>>))
                  IN  IF \/ ~IsUser(user)
                         \/ ~ValidAuthor(id, name, avatar_url)
                         \/ im.raise
                         \/ ~AllValid(im.items)
                         \/ tags.raise
                         \/ ~ValidInt(total_view)
                         \/ ~ValidInt(total_bookmarks)
                         \/ is_r18.raise
                         \/ ~IsStr(title)
                         \/ ~ValidTags(tags.names)
                         \/ ~ValidInt(page_count)
                         \/ ~ValidOptStr(caption)
                      THEN Raise
                      ELSE Return(ArtworkResponse(
                               artwork_id, title.str, AuthorInfo(id, name, avatar_url),
                               ImagesOf(im.items), TagList(tags.names),
                               ApiStats(total_view, total_bookmarks),
                               ApiCreatedAt(Get(illust, "create_date")), is_r18.flag,
                               IntValue(page_count), OptStr(caption)))

parse_artwork_from_api(api_data, artwork_id) == Caught(ApiTry(api_data, artwork_id))

\* PixivAppAPI.get_artwork: every exception of the request or the parser is
\* caught and becomes None
ApiGetArtwork(c, artwork_id, authResp, http) ==
    LET r == request(c, "illust_detail", authResp, http)
    IN  [client |-> r.client, calls |-> r.calls,
         artwork |-> IF r.raised THEN NoArtwork
                     ELSE parse_artwork_from_api(http.body, artwork_id)]

(***************************************************************************)
(* PixivScraper (app/scraper.py).  An Ajax-shaped illust object is a       *)
(* record of the keys _build_artwork_response reads: original is           *)
(* urls.original and small is urls.small.                                  *)
(***************************************************************************)
AjaxKeys ==
    {"title", "pageCount", "original", "small", "userId", "userName", "profileImageUrl",
     "tags", "likeCount", "bookmarkCount", "viewCount", "createDate", "xRestrict",
     "description"}

NoJson == [none |-> TRUE]
NoHtml == [none |-> TRUE]

\* f"_p{i}"
PageMarker(i) == <<"_", "p", ToString(i)>>

\* int(x or default): raise for a str that is no numeral and for a list
IntOr(v, default) ==
    IF ~JTruthy(v) THEN [raise |-> FALSE, n |-> default]
    ELSE IF IsInt(v) THEN [raise |-> FALSE, n |-> v.int]
    ELSE IF IsStr(v) THEN PyInt(v.str)
    ELSE [raise |-> TRUE, n |-> 0]

\* int(illust.get("pageCount") or 1)
PageCountOf(v) == IntOr(v, 1)

\* str(x) of a JSON value
PyStr(v) ==
    CASE IsStr(v) -> v.str
      [] IsInt(v) -> <<ToString(v.int)>>
      [] OTHER -> <<"[", "]">>

\* scraper.py:133-139: a date that cannot be parsed leaves created_at None
AjaxCreatedAt(create_date) ==
    IF ~JTruthy(create_date) THEN None
    ELSE fromisoformat(Replace(PyStr(create_date), <<"Z">>, <<"+00:00">>))

\* scraper.py:141: comparing a str or a list with a number raises
AjaxIsR18(illust, tags) ==
    LET xRestrict == JOr(Get(illust, "xRestrict"), JInt(0))
    IN  IF ~IsInt(xRestrict) THEN [raise |-> TRUE, flag |-> FALSE]
        ELSE [raise |-> FALSE,
              flag |-> xRestrict.int > 0 \/ \E i \in DOMAIN tags : tags[i] = JStr(R18)]

\* mutant of AjaxImageItems: every page gets the template URL itself
AjaxImageItemsOfTemplate(illust, page_count) ==
    LET original == Get(illust, "original") IN
    IF page_count = 1
    THEN [raise |-> FALSE, items |-> <<Item(original, Get(illust, "small"))>>]
    ELSE IF ~JTruthy(original) THEN [raise |-> FALSE, items |-> <<>>]
    ELSE IF ~IsStr(original) THEN [raise |-> TRUE, items |-> <<>>]
    ELSE [raise |-> FALSE, items |-> [i \in 1..page_count |-> Item(original, JNull)]]

\* the image branch of _build_artwork_response
AjaxImageItems(illust, page_count) ==
    LET original == Get(illust, "original") IN
    IF page_count = 1
    THEN [raise |-> FALSE, items |-> <<Item(original, Get(illust, "small"))>>]
    ELSE IF ~JTruthy(original) THEN [raise |-> FALSE, items |-> <<>>]
    ELSE IF ~IsStr(original) THEN [raise |-> TRUE, items |-> <<>>]
    ELSE [raise |-> FALSE,
          items |-> [i \in 1..page_count |->
                        Item(JStr(Replace(original.str, PageMarker(0), PageMarker(i - 1))),
                             JNull)]]

\* the try block of _build_artwork_response; the key "tags" holds the list
\* tags.tags
BuildTry(illust, artwork_id) ==
    IF illust = JNull THEN Raise
    ELSE LET id == IntOr(Get(illust, "userId"), 0)
             name == JOr(Get(illust, "userName"), JStr(Unknown))
             avatar_url == Get(illust, "profileImageUrl")
             pcnt == PageCountOf(Get(illust, "pageCount"))
         IN
         IF id.raise \/ ~ValidAuthor(JInt(id.n), name, avatar_url) \/ pcnt.raise THEN Raise
         ELSE LET im == AjaxImageItems(illust, pcnt.n)
                  tags == TagNames(GetD(illust, "tags", JList(<<>>)))
                  likes == IntOr(Get(illust, "likeCount"), 0)
                  bookmarks == IntOr(Get(illust, "bookmarkCount"), 0)
                  views == IntOr(Get(illust, "viewCount"), 0)
                  is_r18 == AjaxIsR18(illust, tags.names)
                  title == JOr(Get(illust, "title"), JStr(Untitled))
                  description == JOr(Get(illust, "description"), JStr(<<>>))
              IN  IF \/ im.raise
                     \/ ~AllValid(im.items)
                     \/ tags.raise
                     \/ likes.raise
                     \/ bookmarks.raise
                     \/ views.raise
                     \/ is_r18.raise
                     \/ ~IsStr(title)
                     \/ ~ValidTags(tags.names)
                     \/ ~IsStr(description)
                  THEN Raise
                  ELSE Return(ArtworkResponse(
                           artwork_id, title.str, AuthorInfo(JInt(id.n), name, avatar_url),
                           ImagesOf(im.items), TagList(tags.names),
                           ArtworkStats(likes.n, bookmarks.n, views.n),
                           AjaxCreatedAt(Get(illust, "createDate")), is_r18.flag,
                           pcnt.n, OptStr(description)))

_build_artwork_response(illust, artwork_id) == Caught(BuildTry(illust, artwork_id))

\* an illust map {id: illust} of one entry
IllustMap(key, value) == [key |-> key, value |-> value]

\* illusts.get(str(artwork_id))
MapGet(m, artwork_id) == IF m.key = artwork_id THEN m.value ELSE JNull
\* str(artwork_id) in illusts
MapHas(m, artwork_id) == DOMAIN m = {"key", "value"} /\ m.key = artwork_id

\* truth value of a parsed illust entry: None and {} are false
IllustTruthy(v) == DictTruthy(v, AjaxKeys)

\* truth value of the JSON a page embeds
JsonTruthy(j) == j # NoJson /\ (~j.isdict \/ j.other \/ j.illust # JAbsent)

\* extract_meta_preload_json: None without the tag, without content, or
\* when the content is no JSON
extract_meta_preload_json(page) ==
    IF page.preload.tag = "json" THEN page.preload.json ELSE NoJson

\* the try block of parse_artwork_from_meta_preload: JSON that is no
\* object has no get()
MetaPreloadTry(meta_data, artwork_id) ==
    IF ~meta_data.isdict THEN Raise
    ELSE IF meta_data.illust \in {JAbsent, JNull} THEN Return(NoArtwork)
    ELSE LET illust == MapGet(meta_data.illust, artwork_id) IN
         IF ~IllustTruthy(illust) THEN Return(NoArtwork)
         ELSE Return(_build_artwork_response(illust, artwork_id))

parse_artwork_from_meta_preload(meta_data, artwork_id) ==
    Caught(MetaPreloadTry(meta_data, artwork_id))

\* truth value of the __NEXT_DATA__ JSON
NextDataTruthy(j) ==
    j # NoJson /\ (~j.isdict \/ j.other \/ j.illust # JAbsent \/ j.queries # <<>>)

\* extract_next_data_json
extract_next_data_json(page) ==
    IF page.next.tag = "json" THEN page.next.json ELSE NoJson

\* the dehydrated queries of parse_artwork_from_next_data, in list order
RECURSIVE NextDataQueries(_, _)
NextDataQueries(queries, artwork_id) ==
    IF queries = <<>> THEN NoArtwork
    ELSE LET data == Head(queries) IN
         IF MapHas(data.illust, artwork_id)
         THEN _build_artwork_response(data.illust.value, artwork_id)
         ELSE IF data.id \in {JInt(artwork_id), JStr(<<ToString(artwork_id)>>)}
         THEN _build_artwork_response(data, artwork_id)
         ELSE NextDataQueries(Tail(queries), artwork_id)

\* mutant of NextDataTry: the dehydrated queries come before the preload
\* illust map
NextDataTryQueriesFirst(next_data, artwork_id) ==
    IF ~next_data.isdict THEN Raise
    ELSE IF \E i \in DOMAIN next_data.queries :
                \/ MapHas(next_data.queries[i].illust, artwork_id)
                \/ next_data.queries[i].id \in {JInt(artwork_id), JStr(<<ToString(artwork_id)>>)}
    THEN Return(NextDataQueries(next_data.queries, artwork_id))
    ELSE IF MapHas(next_data.illust, artwork_id)
    THEN Return(_build_artwork_response(next_data.illust.value, artwork_id))
    ELSE Return(NoArtwork)

\* the try block of parse_artwork_from_next_data
NextDataTry(next_data, artwork_id) ==
    IF ~next_data.isdict THEN Raise
    ELSE IF MapHas(next_data.illust, artwork_id)
    THEN Return(_build_artwork_response(next_data.illust.value, artwork_id))
    ELSE Return(NextDataQueries(next_data.queries, artwork_id))

parse_artwork_from_next_data(next_data, artwork_id) ==
    Caught(NextDataTry(next_data, artwork_id))

(***************************************************************************)
(* The HTML-selector parser.  A page's DOM is a record of what the         *)
(* selectors find: h1 the title element's text, og_title / tw_title /      *)
(* og_image the meta tags' content, expand_hrefs the hrefs of the          *)
(* expand-full-size links (none holding an img), img_srcs the src of the   *)
(* matched img tags, avatar_src the src of the author avatar, author_href  *)
(* the href of the author link, author_name the text of the author-name    *)
(* element, og_site the og:site_name content, tag_texts the texts of the   *)
(* tag links, stat_dds the texts of the stat list's dd elements, like_dd / *)
(* bookmark_dd / view_dd the texts of the dd elements found by title,      *)
(* time_datetime the datetime attribute of the time element, r18_elem      *)
(* whether an R-18 element is found, desc the text of the description      *)
(* paragraph.  Texts are as get_text(strip=True) gives them.  JNull is     *)
(* "no such element".                                                      *)
(***************************************************************************)
PximgOriginal == <<"i.pximg.net", "/", "img-original", "/">>
Pximg == <<"i.pximg.net">>

\* meta_content(): the tag's content, None when missing or empty
MetaContent(v) == IF JTruthy(v) THEN v ELSE JNull

\* the expand-link loop of _extract_images_from_html
RECURSIVE ExpandItems(_)
ExpandItems(hrefs) ==
    IF hrefs = <<>> THEN <<>>
    ELSE IF Head(hrefs) # <<>> /\ Contains(Head(hrefs), PximgOriginal)
         THEN <<Item(JStr(Head(hrefs)), JStr(Head(hrefs)))>> \o ExpandItems(Tail(hrefs))
         ELSE ExpandItems(Tail(hrefs))

\* the master1200 -> original rewrite of an img src
OriginalOfSrc(src) ==
    IF Contains(src, <<"img-master">>) /\ Contains(src, <<"_master1200">>)
    THEN Replace(Replace(src, <<"/", "img-master", "/">>, <<"/", "img-original", "/">>),
                 <<"_master1200">>, <<>>)
    ELSE src

\* the img-tag loop of _extract_images_from_html: the first pximg src only
RECURSIVE ImgTagItems(_)
ImgTagItems(srcs) ==
    IF srcs = <<>> THEN <<>>
    ELSE IF Head(srcs) # <<>> /\ Contains(Head(srcs), Pximg)
         THEN <<Item(JStr(OriginalOfSrc(Head(srcs))), JStr(Head(srcs)))>>
         ELSE ImgTagItems(Tail(srcs))

_extract_images_from_html(dom) ==
    IF ExpandItems(dom.expand_hrefs) # <<>> THEN ExpandItems(dom.expand_hrefs)
    ELSE ImgTagItems(dom.img_srcs)

\* the og:image fallback of parse_artwork_from_html
HtmlImageItems(dom) ==
    LET items == _extract_images_from_html(dom)
        og_image == MetaContent(dom.og_image)
    IN  IF items # <<>> THEN items
        ELSE IF og_image # JNull THEN <<Item(og_image, og_image)>>
        ELSE <<>>

HtmlTitle(dom) ==
    IF dom.h1 # <<>> THEN JStr(dom.h1)
    ELSE JOr(MetaContent(dom.og_title), JOr(MetaContent(dom.tw_title), JStr(Untitled)))

\* page_count=max(1, len(images)) if images else 0
HtmlPageCount(images) ==
    IF images # <<>> THEN (IF Len(images) > 1 THEN Len(images) ELSE 1) ELSE 0

\* scraper.py:296-308
HtmlAuthorId(dom) ==
    IF dom.author_href # JNull THEN extract_user_id_from_url(dom.author_href) ELSE 0

HtmlAuthorName(dom) ==
    IF dom.author_name # <<>> THEN JStr(dom.author_name)
    ELSE IF MetaContent(dom.og_site) # JNull THEN dom.og_site
    ELSE JStr(Unknown)

\* scraper.py:326-331: the tag texts, each once, in the order found
RECURSIVE HtmlTags(_, _)
HtmlTags(texts, tags) ==
    IF texts = <<>> THEN tags
    ELSE HtmlTags(Tail(texts),
                  IF Head(texts) # <<>> /\ \A i \in DOMAIN tags : tags[i] # Head(texts)
                  THEN Append(tags, Head(texts)) ELSE tags)

\* the text of an element found by title, when there is one
StatOf(dd) == IF dd # JNull THEN parse_stat_number(dd) ELSE 0

\* mutant of HtmlStats: without three stat elements every count is 0
HtmlStatsZeroBelowThree(dom) ==
    IF Len(dom.stat_dds) >= 3
    THEN ArtworkStats(parse_stat_number(JStr(dom.stat_dds[1])),
                      parse_stat_number(JStr(dom.stat_dds[2])),
                      parse_stat_number(JStr(dom.stat_dds[3])))
    ELSE ArtworkStats(0, 0, 0)

\* scraper.py:334-355
HtmlStats(dom) ==
    IF Len(dom.stat_dds) >= 3
    THEN ArtworkStats(parse_stat_number(JStr(dom.stat_dds[1])),
                      parse_stat_number(JStr(dom.stat_dds[2])),
                      parse_stat_number(JStr(dom.stat_dds[3])))
    ELSE ArtworkStats(StatOf(dom.like_dd), StatOf(dom.bookmark_dd), StatOf(dom.view_dd))

\* scraper.py:358-364
HtmlCreatedAt(dom) ==
    IF ~JTruthy(dom.time_datetime) THEN None
    ELSE fromisoformat(Replace(dom.time_datetime.str, <<"Z">>, <<"+00:00">>))

\* scraper.py:367
HtmlIsR18(dom, tags) == dom.r18_elem \/ \E i \in DOMAIN tags : tags[i] = R18

\* scraper.py:370-373
HtmlDescription(dom) == IF dom.desc # JNull THEN dom.desc.str ELSE <<>>

\* the try block of parse_artwork_from_html
HtmlTry(page, artwork_id) ==
    LET dom == page.dom
        items == HtmlImageItems(dom)
        tags == HtmlTags(dom.tag_texts, <<>>)
    IN  IF ~ValidOptUrl(dom.avatar_src) \/ ~AllValid(items) THEN Raise
        ELSE Return(ArtworkResponse(
                 artwork_id, HtmlTitle(dom).str,
                 AuthorInfo(JInt(HtmlAuthorId(dom)), HtmlAuthorName(dom), dom.avatar_src),
                 ImagesOf(items), tags, HtmlStats(dom), HtmlCreatedAt(dom),
                 HtmlIsR18(dom, tags), HtmlPageCount(ImagesOf(items)),
                 Some(HtmlDescription(dom))))

parse_artwork_from_html(page, artwork_id) == Caught(HtmlTry(page, artwork_id))

(***************************************************************************)
(* What the upstream may answer.                                           *)
(***************************************************************************)
OriginalUrl == <<"https://", "i.pximg.net", "/", "img-original", "/", "141", "_", "p", "0", ".jpg">>
MasterUrl == <<"https://", "i.pximg.net", "/", "img-master", "/", "141", "_", "p", "0", "_master1200", ".jpg">>
RelativeUrl == <<"/", "i.pximg.net", "/", "img-original", "/", "141", "_", "p", "0", ".jpg">>
\* an artwork id that is not the requested one
OtherId == CHOOSE n \in 1..1000 : n \notin ArtworkIds

AuthResp(raise, at, rt, uid) ==
    [raise |-> raise, access_token |-> at, refresh_token |-> rt, user_id |-> uid]

AuthResponses ==
    { AuthResp(TRUE, None, None, None),
      AuthResp(FALSE, Some("A1"), Some("R1"), Some(7)),
      AuthResp(FALSE, Some(""), Some("R1"), Some(7)),
      AuthResp(FALSE, None, Some("R1"), Some(7)),
      AuthResp(FALSE, Some("A2"), None, Some(7)),
      AuthResp(FALSE, Some("A2"), Some("R2"), None) }

\* an illust object of the keys given and none of the others the parser
\* reads
ApiIllust(title, page_count, original, large, msp_original, meta_pages, other) ==
    [title |-> title, page_count |-> page_count, original |-> original,
     large |-> large, msp_original |-> msp_original, meta_pages |-> meta_pages,
     other |-> other,
     user |-> JAbsent, tags |-> JAbsent, total_view |-> JAbsent,
     total_bookmarks |-> JAbsent, create_date |-> JAbsent, x_restrict |-> JAbsent,
     sanity_level |-> JAbsent, caption |-> JAbsent]

EmptyApiDict == ApiIllust(JAbsent, JAbsent, JAbsent, JAbsent, JAbsent, JAbsent, FALSE)

\* a list of n page URLs
PageUrls(n) == JList([i \in 1..n |-> JStr(Replace(OriginalUrl, PageMarker(0), PageMarker(i - 1)))])

ApiIllusts ==
    { ApiIllust(JStr(<<"T">>), JInt(1), JStr(OriginalUrl), JStr(MasterUrl), JAbsent, JAbsent, FALSE),
      ApiIllust(JAbsent, JAbsent, JAbsent, JAbsent, JStr(OriginalUrl), JAbsent, FALSE),
      ApiIllust(JStr(<<"T">>), JInt(1), JAbsent, JAbsent, JAbsent, JAbsent, FALSE),
      ApiIllust(JAbsent, JAbsent, JAbsent, JAbsent, JAbsent, JAbsent, TRUE),
      ApiIllust(JNull, JInt(1), JStr(OriginalUrl), JAbsent, JAbsent, JAbsent, FALSE),
      ApiIllust(JStr(<<"T">>), JInt(1), JStr(RelativeUrl), JAbsent, JAbsent, JAbsent, FALSE) }
    \cup { ApiIllust(JStr(<<"T">>), JInt(n), JAbsent, JAbsent, JAbsent, PageUrls(n), FALSE) :
             n \in 2..MaxPages }

Http(raise, body) == [raise |-> raise, body |-> body]

\* the bodies of /v1/illust/detail: the illust wrapped as {"illust": ...},
\* a flat object, {} and a body that is no object
ApiDetailAnswers ==
    { Http(TRUE, [isdict |-> FALSE]), Http(FALSE, [isdict |-> FALSE]),
      Http(FALSE, [isdict |-> TRUE, illust |-> JAbsent, top |-> EmptyApiDict]) }
    \cup { Http(FALSE, [isdict |-> TRUE, illust |-> i, top |-> EmptyApiDict]) : i \in ApiIllusts }
    \cup { Http(FALSE, [isdict |-> TRUE, illust |-> JAbsent, top |-> i]) : i \in ApiIllusts }

\* the bodies of /v2/illust/related: "illusts" lists each entry's id
\* (JAbsent: an entry without id, JNull: an entry that is no object)
RelatedBody(illusts) == [isdict |-> TRUE, illusts |-> illusts]

RelatedAnswers ==
    { Http(TRUE, [isdict |-> FALSE]), Http(FALSE, [isdict |-> FALSE]),
      Http(FALSE, RelatedBody(JAbsent)),
      Http(FALSE, RelatedBody(JList(<<JInt(5), JAbsent, JInt(0), JInt(6)>>))),
      Http(FALSE, RelatedBody(JList(<<JInt(5), JNull>>))),
      Http(FALSE, RelatedBody(JList([i \in 1..(RelatedLimit + 2) |-> JInt(i)]))) }

\* the bodies of the list endpoints (ranking, search, ...), passed through
ListAnswers == { Http(TRUE, [isdict |-> FALSE]), Http(FALSE, [isdict |-> TRUE]) }

AjaxIllust(title, pageCount, original, small, other) ==
    [title |-> title, pageCount |-> pageCount, original |-> original,
     small |-> small, other |-> other,
     illust |-> JAbsent, id |-> JAbsent,
     userId |-> JAbsent, userName |-> JAbsent, profileImageUrl |-> JAbsent,
     tags |-> JAbsent, likeCount |-> JAbsent, bookmarkCount |-> JAbsent,
     viewCount |-> JAbsent, createDate |-> JAbsent, xRestrict |-> JAbsent,
     description |-> JAbsent]

AjaxIllusts ==
    { AjaxIllust(JStr(<<"T">>), JInt(1), JStr(OriginalUrl), JStr(MasterUrl), FALSE),
      AjaxIllust(JAbsent, JAbsent, JAbsent, JAbsent, TRUE),
      AjaxIllust(JStr(<<"T">>), JStr(<<"x">>), JStr(OriginalUrl), JAbsent, FALSE) }
    \cup { AjaxIllust(JStr(<<"T">>), JInt(n), JStr(OriginalUrl), JAbsent, FALSE) :
             n \in 2..MaxPages }

Embedded(tag, json) == [tag |-> tag, json |-> json]

MetaData(illust, other) == [isdict |-> TRUE, illust |-> illust, other |-> other]

\* <meta id="meta-preload-data">: missing, not JSON, {}, a JSON list, a
\* map without the id, a map with it
Preloads ==
    { Embedded("absent", NoJson), Embedded("badjson", NoJson),
      Embedded("json", MetaData(JAbsent, FALSE)),
      Embedded("json", [isdict |-> FALSE]),
      Embedded("json", MetaData(IllustMap(OtherId, JNull), FALSE)) }
    \cup { Embedded("json", MetaData(IllustMap(id, i), FALSE)) :
             id \in ArtworkIds, i \in AjaxIllusts }

NextData(illust, queries, other) ==
    [isdict |-> TRUE, illust |-> illust, queries |-> queries, other |-> other]

\* a dehydrated query's state.data: an illust map, or an illust with its id
QueryWithMap(m) == [AjaxIllust(JAbsent, JAbsent, JAbsent, JAbsent, FALSE) EXCEPT !.illust = m]
QueryWithId(i, id) == [i EXCEPT !.id = id]

NextDatas ==
    { Embedded("absent", NoJson),
      Embedded("json", NextData(JAbsent, <<>>, TRUE)),
      Embedded("json", NextData(JAbsent, <<QueryWithMap(IllustMap(OtherId, JNull))>>, FALSE)) }
    \cup { Embedded("json", NextData(IllustMap(id, i), <<>>, FALSE)) :
             id \in ArtworkIds, i \in AjaxIllusts }
    \cup { Embedded("json", NextData(JAbsent, <<QueryWithMap(IllustMap(OtherId, JNull)),
                                                QueryWithId(i, JInt(id))>>, FALSE)) :
             id \in ArtworkIds, i \in AjaxIllusts }

\* a page where the selectors find what is given and nothing else
Dom(h1, og_title, tw_title, expand_hrefs, img_srcs, og_image, avatar_src) ==
    [h1 |-> h1, og_title |-> og_title, tw_title |-> tw_title,
     expand_hrefs |-> expand_hrefs, img_srcs |-> img_srcs, og_image |-> og_image,
     avatar_src |-> avatar_src,
     author_href |-> JNull, author_name |-> <<>>, og_site |-> JNull, tag_texts |-> <<>>,
     stat_dds |-> <<>>, like_dd |-> JNull, bookmark_dd |-> JNull, view_dd |-> JNull,
     time_datetime |-> JNull, r18_elem |-> FALSE, desc |-> JNull]

Doms ==
    { Dom(<<>>, JNull, JNull, <<>>, <<>>, JNull, JNull),
      Dom(<<"T">>, JNull, JNull, <<OriginalUrl>>, <<>>, JNull, JStr(MasterUrl)),
      Dom(<<>>, JStr(<<"OG">>), JNull, <<>>, <<MasterUrl>>, JNull, JNull),
      Dom(<<>>, JNull, JStr(<<"TW">>), <<>>, <<>>, JStr(MasterUrl), JNull),
      Dom(<<"T">>, JNull, JNull, <<RelativeUrl>>, <<>>, JNull, JNull),
      Dom(<<"T">>, JNull, JNull, <<>>, <<>>, JNull, JStr(RelativeUrl)) }
    \cup { Dom(<<"T">>, JNull, JNull, [i \in 1..n |-> OriginalUrl], <<>>, JNull, JNull) :
             n \in 2..MaxPages }

EmptyHtml == [empty |-> TRUE]

Pages == [preload : Preloads, next : NextDatas, dom : Doms]

\* "if not html"
HtmlTruthy(h) == h # NoHtml /\ h # EmptyHtml

(***************************************************************************)
(* The payloads given to the parsers on their own: a payload that has      *)
(* every key the parser reads, with one or two of its keys changed.        *)
(***************************************************************************)
DateTime == <<"2026-02-28T08:33:00", "Z">>
TagA == JStr(<<"a">>)
TagB == JStr(<<"b">>)

\* the tag lists and the counts a payload may hold
TagLists ==
    { JAbsent, JNull, JList(<<>>), JList(<<TagA, TagA>>), JList(<<TagB, TagA, TagB>>),
      JList(<<TagA, JStr(R18)>>), JList(<<JAbsent, TagA, JStr(<<>>)>>),
      JList(<<TagA, JNull>>), JList(<<JInt(5)>>) }
Counts == {JAbsent, JNull, JInt(0), JInt(0 - 1), JStr(<<"4">>), JStr(<<"x">>)}
Dates ==
    { JAbsent, JNull, JStr(<<>>), JStr(<<"2026-02-28T08:33:00", "+09:00">>),
      JStr(<<"2026-02-28T08:33:00">>), JStr(<<"yesterday">>), JInt(5) }
Restrictions == {JAbsent, JNull, JInt(0), JInt(1), JInt(2), JInt(0 - 1), JStr(<<"1">>)}

\* b with the key c[1] set to c[2]
Changed(b, c) == [b EXCEPT ![c[1]] = c[2]]
Changes(keys, Values(_)) == UNION {{<<k, v>> : v \in Values(k)} : k \in keys}
OneChange(bases, changes) == {Changed(b, c) : b \in bases, c \in changes}
TwoChanges(bases, changes) == OneChange(OneChange(bases, changes), changes)

FullUser == User(JInt(7), JStr(<<"N">>), JStr(MasterUrl))

FullApiIllust ==
    [ApiIllust(JStr(<<"T">>), JInt(1), JStr(OriginalUrl), JStr(MasterUrl), JAbsent,
               JAbsent, FALSE)
     EXCEPT !.user = FullUser, !.tags = JList(<<TagA, TagB>>), !.total_view = JInt(4),
            !.total_bookmarks = JInt(2), !.create_date = JStr(DateTime),
            !.x_restrict = JInt(0), !.sanity_level = JInt(2), !.caption = JStr(<<"c">>)]

MultiApiIllust(n) ==
    [FullApiIllust EXCEPT !.page_count = JInt(n), !.original = JAbsent,
                          !.large = JAbsent, !.meta_pages = PageUrls(n)]

ApiBases == {FullApiIllust} \cup {MultiApiIllust(n) : n \in 2..MaxPages}

ApiValues(k) ==
    CASE k = "title" -> {JAbsent, JNull, JStr(<<>>), JInt(5)}
      [] k = "page_count" ->
            {JAbsent, JNull, JInt(0), JInt(1), JStr(<<"2">>)} \cup {JInt(n) : n \in 2..MaxPages}
      [] k = "original" -> {JAbsent, JNull, JStr(RelativeUrl)}
      [] k = "large" -> {JAbsent, JNull}
      [] k = "msp_original" -> {JStr(OriginalUrl)}
      [] k = "meta_pages" -> {JAbsent, JNull} \cup {PageUrls(n) : n \in 0..MaxPages}
      [] k = "user" ->
            {JAbsent, JNull, EmptyUser, User(JStr(<<"7">>), JNull, JAbsent),
             User(JInt(7), JStr(<<"N">>), JStr(RelativeUrl))}
      [] k = "tags" -> TagLists
      [] k = "total_view" -> Counts
      [] k = "total_bookmarks" -> Counts
      [] k = "create_date" -> Dates
      [] k = "x_restrict" -> Restrictions
      [] k = "sanity_level" -> {JAbsent, JNull, JInt(5), JInt(6), JInt(7)}
      [] k = "caption" -> {JAbsent, JNull, JStr(<<>>), JInt(5)}

ApiChanges == Changes(ApiKeys, ApiValues)

FullAjaxIllust ==
    [AjaxIllust(JStr(<<"T">>), JInt(1), JStr(OriginalUrl), JStr(MasterUrl), FALSE)
     EXCEPT !.userId = JStr(<<"7">>), !.userName = JStr(<<"N">>),
            !.profileImageUrl = JStr(MasterUrl), !.tags = JList(<<TagA, TagB>>),
            !.likeCount = JInt(1), !.bookmarkCount = JInt(2), !.viewCount = JInt(4),
            !.createDate = JStr(DateTime), !.xRestrict = JInt(0),
            !.description = JStr(<<"c">>)]

MultiAjaxIllust(n) == [FullAjaxIllust EXCEPT !.pageCount = JInt(n), !.small = JAbsent]

AjaxBases == {FullAjaxIllust} \cup {MultiAjaxIllust(n) : n \in 2..MaxPages}

\* a template URL that holds the page-0 marker twice, and one without it
TwiceUrl == <<"https://", "i.pximg.net", "/", "_", "p", "0", "/", "141", "_", "p", "0", ".jpg">>
PlainUrl == <<"https://", "i.pximg.net", "/", "141", ".jpg">>

AjaxValues(k) ==
    CASE k = "title" -> {JAbsent, JNull, JStr(<<>>), JInt(5)}
      [] k = "pageCount" ->
            {JAbsent, JNull, JInt(0), JInt(0 - 2), JStr(<<"2">>), JStr(<<"0">>), JStr(<<"x">>)}
                \cup {JInt(n) : n \in 2..MaxPages}
      [] k = "original" ->
            {JAbsent, JNull, JStr(RelativeUrl), JStr(TwiceUrl), JStr(PlainUrl), JInt(5)}
      [] k = "small" -> {JAbsent, JNull}
      [] k = "userId" -> {JAbsent, JNull, JInt(7), JStr(<<"x">>)}
      [] k = "userName" -> {JAbsent, JNull, JInt(5)}
      [] k = "profileImageUrl" -> {JAbsent, JNull, JStr(RelativeUrl)}
      [] k = "tags" -> TagLists
      [] k = "likeCount" -> Counts
      [] k = "bookmarkCount" -> Counts
      [] k = "viewCount" -> Counts
      [] k = "createDate" -> Dates
      [] k = "xRestrict" -> Restrictions
      [] k = "description" -> {JAbsent, JNull, JStr(<<>>), JInt(5)}

AjaxChanges == Changes(AjaxKeys, AjaxValues)

DomKeys ==
    {"h1", "og_title", "tw_title", "expand_hrefs", "img_srcs", "og_image", "avatar_src",
     "author_href", "author_name", "og_site", "tag_texts", "stat_dds", "like_dd",
     "bookmark_dd", "view_dd", "time_datetime", "r18_elem", "desc"}

FullDom ==
    [Dom(<<"T">>, JStr(<<"OG">>), JStr(<<"TW">>), <<OriginalUrl>>, <<MasterUrl>>,
         JStr(MasterUrl), JStr(MasterUrl))
     EXCEPT !.author_href = JStr(<<"/users/", "7">>), !.author_name = <<"N">>,
            !.og_site = JStr(<<"pixiv">>), !.tag_texts = <<<<"a">>, <<"b">>>>,
            !.stat_dds = <<<<"1">>, <<"1", ",", "4">>, <<"1", ".", "4", "K">>>>,
            !.like_dd = JStr(<<"4">>), !.bookmark_dd = JStr(<<"4">>),
            !.view_dd = JStr(<<"4">>), !.time_datetime = JStr(DateTime),
            !.desc = JStr(<<"c">>)]

Texts1 == {JNull, JStr(<<>>)}

DomValues(k) ==
    CASE k = "h1" -> {<<>>}
      [] k = "og_title" -> Texts1
      [] k = "tw_title" -> Texts1
      [] k = "expand_hrefs" ->
            {<<>>, <<RelativeUrl>>, <<MasterUrl>>} \cup
            {[i \in 1..n |-> OriginalUrl] : n \in 2..MaxPages}
      [] k = "img_srcs" -> {<<>>, <<RelativeUrl, MasterUrl>>}
      [] k = "og_image" -> Texts1 \cup {JStr(RelativeUrl)}
      [] k = "avatar_src" -> {JNull, JStr(RelativeUrl)}
      [] k = "author_href" -> {JNull, JStr(<<"/users/", "a">>)}
      [] k = "author_name" -> {<<>>}
      [] k = "og_site" -> Texts1
      [] k = "tag_texts" ->
            {<<>>, <<<<"a">>, <<"a">>>>, <<<<"b">>, <<>>, <<"a">>, <<"b">>>>, <<<<"a">>, R18>>}
      [] k = "stat_dds" ->
            {<<>>, <<<<"1">>, <<"4">>>>, <<<<"-", "4">>, <<>>, <<"a">>>>,
             <<<<"0">>, <<"1">>, <<"4">>, <<"1", "1">>>>}
      [] k = "like_dd" -> {JNull, JStr(<<"-", "1">>)}
      [] k = "bookmark_dd" -> {JNull, JStr(<<>>)}
      [] k = "view_dd" -> {JNull, JStr(<<"4", ".", "1", "M">>)}
      [] k = "time_datetime" ->
            {JNull, JStr(<<>>), JStr(<<"yesterday">>), JStr(<<"2026-02-28T08:33:00">>)}
      [] k = "r18_elem" -> BOOLEAN
      [] k = "desc" -> Texts1

DomChanges == Changes(DomKeys, DomValues)

\* how the illust object lies in the payload a parser is given.  The
\* official API: under "illust", or as the body itself.  The preload JSON:
\* in the illust map under the id asked for, or under another id.  The
\* hydration JSON: in the preload illust map, in a query's illust map, or
\* as a query's data with its id (after a query that holds another id),
\* alone or with Decoy at a later one of these places.
ApiBody(shape, illust) ==
    CASE shape = "illust" -> [isdict |-> TRUE, illust |-> illust, top |-> EmptyApiDict]
      [] shape = "flat" -> [isdict |-> TRUE, illust |-> JAbsent, top |-> illust]
      [] shape = "nodict" -> [isdict |-> FALSE]

MetaBody(shape, illust, id) ==
    CASE shape = "map" -> MetaData(IllustMap(id, illust), FALSE)
      [] shape = "other" -> MetaData(IllustMap(OtherId, illust), FALSE)
      [] shape = "nodict" -> [isdict |-> FALSE]

\* another illust object of the same artwork, told apart by its title
Decoy == [FullAjaxIllust EXCEPT !.title = JStr(<<"D">>)]

NextBody(shape, illust, id) ==
    CASE shape = "preload" -> NextData(IllustMap(id, illust), <<>>, FALSE)
      [] shape = "query_map" ->
            NextData(JAbsent, <<QueryWithMap(IllustMap(id, illust))>>, FALSE)
      [] shape = "query_id" ->
            NextData(JAbsent, <<QueryWithMap(IllustMap(OtherId, JNull)),
                                QueryWithId(illust, JInt(id))>>, FALSE)
      [] shape = "other" ->
            NextData(IllustMap(OtherId, illust), <<QueryWithId(illust, JInt(OtherId))>>, FALSE)
      [] shape = "preload_and_query" ->
            NextData(IllustMap(id, illust), <<QueryWithMap(IllustMap(id, Decoy))>>, FALSE)
      [] shape = "id_before_map" ->
            NextData(JAbsent, <<QueryWithId(illust, JStr(<<ToString(id)>>)),
                                QueryWithMap(IllustMap(id, Decoy))>>, FALSE)
      [] shape = "map_and_id" ->
            NextData(JAbsent, <<QueryWithId(QueryWithMap(IllustMap(id, illust)), JInt(id))>>,
                     FALSE)
      [] shape = "nodict" -> [isdict |-> FALSE]

Input(parser, shape, illust) == [parser |-> parser, shape |-> shape, illust |-> illust]

ParserInputs ==
    {Input("parse_artwork_from_api", "illust", i) : i \in TwoChanges(ApiBases, ApiChanges)}
    \cup {Input("parse_artwork_from_api", sh, i) :
             sh \in {"flat", "nodict"}, i \in OneChange(ApiBases, ApiChanges) \cup {EmptyApiDict}}
    \cup {Input("_build_artwork_response", "illust", i) :
             i \in TwoChanges(AjaxBases, AjaxChanges) \cup {JNull}}
    \cup {Input("parse_artwork_from_meta_preload", sh, i) :
             sh \in {"map", "other", "nodict"}, i \in OneChange(AjaxBases, AjaxChanges) \cup {JNull}}
    \cup {Input("parse_artwork_from_next_data", sh, i) :
             sh \in {"preload", "query_map", "query_id", "other", "nodict", "preload_and_query",
                    "id_before_map", "map_and_id"},
             i \in OneChange(AjaxBases, AjaxChanges)}
    \cup {Input("parse_artwork_from_html", "page", d) : d \in TwoChanges({FullDom}, DomChanges)}

(***************************************************************************)
(* The texts given to the functions of app/utils.py.                       *)
(***************************************************************************)
\* every sequence over chars of at most n elements
Texts(chars, n) == UNION {[1..k -> chars] : k \in 0..n}

StatChars == {"0", "1", "4", ",", ".", "K", "k", "M", "-", "a", " "}
StatTexts == {JNull} \cup {JStr(s) : s \in Texts(StatChars, MaxStatLen)}

UrlSymbols == {"/users/", "/artworks/", "0", "1", "2", "a"}
UrlTexts == {JNull} \cup {JStr(s) : s \in Texts(UrlSymbols, MaxUrlLen)}

(***************************************************************************)
(* The FastAPI application (app/main.py).                                  *)
(***************************************************************************)
NoResponse == [none |-> TRUE]
NoRequest == [none |-> TRUE]

\* a handler's return value, sent with status 200
Ok(a) == [status |-> 200, keys |-> {}, artwork |-> a]

\* raise HTTPException(status_code, detail): FastAPI answers with the
\* status and the body {"detail": detail}
HTTPException(status_code) == [status |-> status_code, keys |-> {"detail"}, artwork |-> NoArtwork]

\* global_exception_handler: the ErrorResponse envelope
global_exception_handler == [status |-> 500, keys |-> {"error", "detail"}, artwork |-> NoArtwork]

Request(route, artwork_id, force_scraping, include_related) ==
    [route |-> route, artwork_id |-> artwork_id, force_scraping |-> force_scraping,
     include_related |-> include_related]

SettingsValues ==
    [use_official_api : BOOLEAN, pixiv_refresh_token : {None, Some(""), Some("R0")}]

Init ==
    /\ settings \in SettingsValues
    /\ api_client = NoClient
    /\ pc = "boot"
    /\ req = NoRequest
    /\ artwork = NoArtwork
    /\ html = NoHtml
    /\ calls = <<>>
    /\ response = NoResponse
    /\ api_result = NoArtwork
    /\ fn = "none"
    /\ arg = None
    /\ ret = None

\* lifespan(): the client is kept only when its first auth() succeeds
lifespan ==
    /\ pc = "boot"
    /\ pc' = "idle"
    /\ IF settings.use_official_api /\ StrTruthy(settings.pixiv_refresh_token)
       THEN \E resp \in AuthResponses :
               LET a == auth(PixivAppAPI(settings.pixiv_refresh_token), resp)
               IN  api_client' = IF a.raised THEN NoClient ELSE a.client
       ELSE api_client' = NoClient
    /\ UNCHANGED <<fn, arg, ret, settings, req, artwork, html, calls, response, api_result>>

\* mutant of UseOfficialApi: force_scraping is ignored
UseOfficialApiIgnoringForce(force_scraping, client) == client # NoClient

\* main.py:116 "if not force_scraping and api_client"
UseOfficialApi(force_scraping, client) == ~force_scraping /\ client # NoClient

\* mutants of AfterApi: the scraper runs whatever the API returned; the
\* scraper never runs
AfterApiAlwaysScrape(a) == "fetch"
AfterApiNoFallback(a) == "respond"

\* main.py:139 "if not artwork": where get_artwork goes once the official
\* API part is over
AfterApi(a) == IF ~TruthyArtwork(a) THEN "fetch" ELSE "respond"

\* GET /artworks/{artwork_id}: the request arrives
get_artwork ==
    /\ pc = "idle"
    /\ \E id \in ArtworkIds, force_scraping \in BOOLEAN, include_related \in BOOLEAN :
          /\ req' = Request("artwork", id, force_scraping, include_related)
          /\ pc' = IF UseOfficialApi(force_scraping, api_client) THEN "api"
                   ELSE AfterApi(NoArtwork)
    /\ artwork' = NoArtwork
    /\ html' = NoHtml
    /\ calls' = <<>>
    /\ response' = NoResponse
    /\ api_result' = NoArtwork
    /\ UNCHANGED <<fn, arg, ret, settings, api_client>>

\* main.py:119 artwork = await api_client.get_artwork(artwork_id)
api_get_artwork ==
    /\ pc = "api"
    /\ \E resp \in AuthResponses, http \in ApiDetailAnswers :
          LET r == ApiGetArtwork(api_client, req.artwork_id, resp, http) IN
          /\ api_client' = r.client
          /\ artwork' = r.artwork
          /\ api_result' = r.artwork
          /\ calls' = calls \o <<Call("api_client.get_artwork", r.artwork # NoArtwork)>>
                            \o r.calls
          /\ pc' = IF TruthyArtwork(r.artwork) /\ req.include_related THEN "related"
                   ELSE AfterApi(r.artwork)
    /\ UNCHANGED <<fn, arg, ret, settings, req, html, response>>

\* the ids of main.py:127-131: raise when the body or an entry is no object
RECURSIVE TruthyIds(_)
TruthyIds(ids) ==
    IF ids = <<>> THEN <<>>
    ELSE IF JTruthy(Head(ids)) THEN <<Head(ids).int>> \o TruthyIds(Tail(ids))
    ELSE TruthyIds(Tail(ids))

Prefix(s, n) == SubSeq(s, 1, IF Len(s) < n THEN Len(s) ELSE n)

\* mutant of RelatedIds: the ids of every entry, not of the first ones
RelatedIdsOfAll(body) ==
    IF ~body.isdict THEN [raise |-> TRUE, ids |-> <<>>]
    ELSE LET illusts == GetD(body, "illusts", JList(<<>>)) IN
         IF ~IsList(illusts) THEN [raise |-> TRUE, ids |-> <<>>]
         ELSE IF \E i \in DOMAIN illusts.list : illusts.list[i] = JNull
              THEN [raise |-> TRUE, ids |-> <<>>]
              ELSE [raise |-> FALSE, ids |-> TruthyIds(illusts.list)]

RelatedIds(body) ==
    IF ~body.isdict THEN [raise |-> TRUE, ids |-> <<>>]
    ELSE LET illusts == GetD(body, "illusts", JList(<<>>)) IN
         IF ~IsList(illusts) THEN [raise |-> TRUE, ids |-> <<>>]
         ELSE LET first == Prefix(illusts.list, RelatedLimit) IN
              IF \E i \in 1..Len(first) : first[i] = JNull
              THEN [raise |-> TRUE, ids |-> <<>>]
              ELSE [raise |-> FALSE, ids |-> TruthyIds(first)]

\* mutant of RelatedFailed: a failed enrichment drops the record
RelatedFailedDropsRecord(a) == NoArtwork

\* main.py:133-134: a failed enrichment is logged and the record kept
RelatedFailed(a) == a

\* main.py:124-134 the related-artwork enrichment
illust_related ==
    /\ pc = "related"
    /\ \E resp \in AuthResponses, http \in RelatedAnswers :
          LET r == request(api_client, "illust_related", resp, http)
              ids == IF r.raised THEN [raise |-> TRUE, ids |-> <<>>] ELSE RelatedIds(http.body)
              a == IF ids.raise THEN RelatedFailed(artwork)
                   ELSE [artwork EXCEPT !.related_artworks = ids.ids]
          IN
          /\ api_client' = r.client
          /\ artwork' = a
          /\ calls' = calls \o <<Call("api_client.illust_related", ~ids.raise)>> \o r.calls
          /\ pc' = AfterApi(a)
    /\ UNCHANGED <<fn, arg, ret, settings, req, html, response, api_result>>

\* scraper.py:396-398 html = await self.fetch_html(url): every fetch error
\* is caught and gives None; no page and an empty page end the scraper
fetch_html ==
    /\ pc = "fetch"
    /\ \E h \in Pages \cup {NoHtml, EmptyHtml} :
          /\ html' = h
          /\ calls' = Append(calls, Call("fetch_html", HtmlTruthy(h)))
          /\ pc' = IF HtmlTruthy(h) THEN "meta" ELSE "respond"
    /\ artwork' = NoArtwork
    /\ UNCHANGED <<fn, arg, ret, settings, api_client, req, response, api_result>>

\* mutant of ParsedOrNext: after a parser's None the chain jumps to the
\* HTML parser
ParsedOrHtml(a, next) == IF a # NoArtwork THEN "respond" ELSE "html"

\* mutant of ParsedOrNext: after a parser's None the chain starts again
ParsedOrAgain(a, next) == IF TruthyArtwork(a) THEN "respond" ELSE "meta"

\* scraper.py:404-406 and 412-414: a record ends the chain, None goes on
\* to the parser named
ParsedOrNext(a, next) == IF TruthyArtwork(a) THEN "respond" ELSE next

\* one stage of PixivScraper.get_artwork: the extractor, and the parser
\* when the extractor found JSON
Stage(extract_op, parse_op, found, a, next) ==
    /\ calls' = IF found
                THEN calls \o <<Call(extract_op, TRUE), Call(parse_op, a # NoArtwork)>>
                ELSE Append(calls, Call(extract_op, FALSE))
    /\ artwork' = IF found THEN a ELSE NoArtwork
    /\ pc' = IF found THEN ParsedOrNext(a, next) ELSE next

\* scraper.py:400-406  1) meta-preload-data
try_meta_preload ==
    /\ pc = "meta"
    /\ LET meta_data == extract_meta_preload_json(html) IN
       Stage("extract_meta_preload_json", "parse_artwork_from_meta_preload",
             JsonTruthy(meta_data),
             IF JsonTruthy(meta_data)
             THEN parse_artwork_from_meta_preload(meta_data, req.artwork_id)
             ELSE NoArtwork,
             "next")
    /\ UNCHANGED <<fn, arg, ret, settings, api_client, req, html, response, api_result>>

\* scraper.py:408-414  2) __NEXT_DATA__
try_next_data ==
    /\ pc = "next"
    /\ LET next_data == extract_next_data_json(html) IN
       Stage("extract_next_data_json", "parse_artwork_from_next_data",
             NextDataTruthy(next_data),
             IF NextDataTruthy(next_data)
             THEN parse_artwork_from_next_data(next_data, req.artwork_id)
             ELSE NoArtwork,
             "html")
    /\ UNCHANGED <<fn, arg, ret, settings, api_client, req, html, response, api_result>>

\* scraper.py:416-423  3) the HTML itself
try_html ==
    /\ pc = "html"
    /\ LET a == parse_artwork_from_html(html, req.artwork_id) IN
       /\ calls' = Append(calls, Call("parse_artwork_from_html", a # NoArtwork))
       /\ artwork' = a
    /\ pc' = "respond"
    /\ UNCHANGED <<fn, arg, ret, settings, api_client, req, html, response, api_result>>

\* main.py:143-149 None is answered 404, a record is returned
ArtworkOutcome(a) == IF ~TruthyArtwork(a) THEN HTTPException(404) ELSE Ok(a)

\* mutant of HandlerExcept: "except Exception" comes first and turns the
\* handler's own HTTPException into a 500
HandlerExceptCatchesAll(r) == IF r.status = 200 THEN r ELSE [r EXCEPT !.status = 500]

\* main.py:151-158 (and the same clauses of the other handlers):
\* an HTTPException passes, any other exception becomes HTTPException(500)
HandlerExcept(r) == r

respond ==
    /\ pc = "respond"
    /\ req.route = "artwork"
    /\ response' = HandlerExcept(ArtworkOutcome(artwork))
    /\ pc' = "idle"
    /\ UNCHANGED <<fn, arg, ret, settings, api_client, req, artwork, html, calls, api_result>>

\* mutant of ApiUnavailable: the guard is missing
ApiUnavailableNever(client) == FALSE

\* main.py:293 "if not api_client"
ApiUnavailable(client) == client = NoClient

\* the handlers of /ranking, /search, /users/{id}/illusts and /recommended:
\* 503 without a client, else the client's answer, or 500 when it raises
\* (a call on a None client raises AttributeError inside the try)
ApiOnlyRoute(route, op) ==
    /\ pc = "idle"
    /\ req' = Request(route, 0, FALSE, FALSE)
    /\ IF ApiUnavailable(api_client)
       THEN /\ response' = HTTPException(503)
            /\ calls' = <<>>
            /\ api_client' = api_client
       ELSE IF api_client = NoClient
       THEN /\ response' = HTTPException(500)
            /\ calls' = <<>>
            /\ api_client' = api_client
       ELSE \E resp \in AuthResponses, http \in ListAnswers :
               LET r == request(api_client, op, resp, http) IN
               /\ response' = IF r.raised THEN HTTPException(500) ELSE Ok(NoArtwork)
               /\ calls' = r.calls
               /\ api_client' = r.client
    /\ artwork' = NoArtwork
    /\ html' = NoHtml
    /\ api_result' = NoArtwork
    /\ UNCHANGED <<fn, arg, ret, settings, pc>>

get_ranking == ApiOnlyRoute("ranking", "illust_ranking")
search_illustrations == ApiOnlyRoute("search", "search_illust")
get_user_illustrations == ApiOnlyRoute("user_illusts", "user_illusts")
get_recommended == ApiOnlyRoute("recommended", "illust_recommended")

\* main.py:368 scraper.get_user_ajax(user_id): class PixivScraper
\* (scraper.py:21-423) defines no get_user_ajax, so the attribute lookup
\* raises AttributeError
get_user_ajax == [raise |-> TRUE, user_data |-> JNull]

\* main.py:350-384 GET /users/{user_id}: the official API's answer when the
\* client is used and does not raise; else the Ajax step, whose data is
\* returned when truthy, 404 otherwise, and 500 when the step raises
get_user_detail ==
    /\ pc = "idle"
    /\ \E force_scraping \in BOOLEAN, resp \in AuthResponses, http \in ListAnswers :
          LET use == UseOfficialApi(force_scraping, api_client)
              r == IF use THEN request(api_client, "user_detail", resp, http)
                   ELSE [client |-> api_client, raised |-> TRUE, calls |-> <<>>]
              fallback == IF get_user_ajax.raise THEN HTTPException(500)
                          ELSE IF JTruthy(get_user_ajax.user_data) THEN Ok(NoArtwork)
                          ELSE HTTPException(404)
          IN  /\ req' = Request("user", 0, force_scraping, FALSE)
              /\ api_client' = r.client
              /\ response' = IF ~r.raised THEN Ok(NoArtwork) ELSE fallback
              /\ calls' = IF ~r.raised THEN r.calls
                          ELSE Append(r.calls, Call("get_user_ajax", ~get_user_ajax.raise))
    /\ artwork' = NoArtwork
    /\ html' = NoHtml
    /\ api_result' = NoArtwork
    /\ UNCHANGED <<fn, arg, ret, settings, pc>>

\* main.py:259 scraper.get_download_filename(url): class PixivScraper
\* defines no get_download_filename, so the attribute lookup raises
\* AttributeError
get_download_filename == [raise |-> TRUE, filename |-> <<>>]

\* main.py:207-211 GET /artworks/{artwork_id}/download: page is None or a
\* number >= 0; the record comes from the scraper alone
download_artwork ==
    /\ pc = "idle"
    /\ \E id \in ArtworkIds, page \in {None} \cup {Some(n) : n \in 0..MaxPages},
          thumbnail \in BOOLEAN :
          req' = [route |-> "download", artwork_id |-> id, force_scraping |-> TRUE,
                  include_related |-> FALSE, page |-> page, thumbnail |-> thumbnail]
    /\ pc' = "fetch"
    /\ artwork' = NoArtwork
    /\ html' = NoHtml
    /\ calls' = <<>>
    /\ response' = NoResponse
    /\ api_result' = NoArtwork
    /\ UNCHANGED <<fn, arg, ret, settings, api_client>>

\* main.py:220-278 what download_artwork answers for the scraper's record
DownloadOutcome(a, page, thumbnail) ==
    IF ~TruthyArtwork(a) THEN HTTPException(404)
    ELSE IF a.images = <<>> THEN HTTPException(404)
    ELSE IF page # None /\ page[1] >= Len(a.images) THEN HTTPException(404)
    ELSE IF page = None /\ Len(a.images) > 1 THEN HTTPException(400)
    ELSE LET image == IF page # None THEN a.images[page[1] + 1] ELSE a.images[1]
             url == IF thumbnail /\ image.thumbnail # None THEN image.thumbnail[1]
                    ELSE image.url
         IN  IF url = <<>> THEN HTTPException(404)
             ELSE IF get_download_filename.raise THEN HTTPException(500)
             ELSE [status |-> 200, keys |-> {"artwork_id", "page", "url", "filename", "referer", "note"},
                   artwork |-> NoArtwork, page |-> IF page # None THEN page[1] ELSE 0,
                   url |-> url]

\* the end of download_artwork, once scraper.get_artwork has returned
respond_download ==
    /\ pc = "respond"
    /\ req.route = "download"
    /\ response' = DownloadOutcome(artwork, req.page, req.thumbnail)
    /\ pc' = "idle"
    /\ UNCHANGED <<fn, arg, ret, settings, api_client, req, artwork, html, calls, api_result>>

Next ==
    \/ lifespan
    \/ get_artwork
    \/ api_get_artwork
    \/ illust_related
    \/ fetch_html
    \/ try_meta_preload
    \/ try_next_data
    \/ try_html
    \/ respond
    \/ get_ranking
    \/ search_illustrations
    \/ get_user_illustrations
    \/ get_recommended
    \/ get_user_detail

Spec == Init /\ [][Next]_vars

\* the service under download requests alone: they use the scraper and
\* share nothing with the other routes
NextDownload ==
    \/ lifespan
    \/ download_artwork
    \/ fetch_html
    \/ try_meta_preload
    \/ try_next_data
    \/ try_html
    \/ respond_download

SpecDownload == Init /\ [][NextDownload]_vars

(***************************************************************************)
(* The functions of app/utils.py on their own: one text is drawn, then the *)
(* function is applied to it.  The application does not run.               *)
(***************************************************************************)
NoApp ==
    /\ settings = [use_official_api |-> FALSE, pixiv_refresh_token |-> None]
    /\ api_client = NoClient
    /\ pc = "boot"
    /\ req = NoRequest
    /\ artwork = NoArtwork
    /\ html = NoHtml
    /\ calls = <<>>
    /\ response = NoResponse
    /\ api_result = NoArtwork

\* fn(arg) is evaluated and its value kept in ret
Apply(name, value) ==
    /\ fn = "none"
    /\ fn' = name
    /\ ret' = value
    /\ UNCHANGED <<arg, settings, api_client, pc, req, artwork, html, calls, response,
                   api_result>>

InitStat == NoApp /\ fn = "none" /\ arg \in StatTexts /\ ret = None

call_parse_stat_number == Apply("parse_stat_number", parse_stat_number(arg))

NextStat == call_parse_stat_number

SpecStat == InitStat /\ [][NextStat]_vars

InitUrl == NoApp /\ fn = "none" /\ arg \in UrlTexts /\ ret = None

call_extract_user_id_from_url ==
    Apply("extract_user_id_from_url", extract_user_id_from_url(arg))

call_extract_artwork_id_from_url ==
    Apply("extract_artwork_id_from_url", extract_artwork_id_from_url(arg))

NextUrl == call_extract_user_id_from_url \/ call_extract_artwork_id_from_url

SpecUrl == InitUrl /\ [][NextUrl]_vars

(***************************************************************************)
(* The parsers on their own: a payload is drawn, then its parser is        *)
(* applied to it, with the id the payload was made for.                    *)
(***************************************************************************)
TargetId == CHOOSE id \in ArtworkIds : TRUE

\* what parser makes of the illust object lying in the payload as shape says
Parsed(parser, shape, illust) ==
    CASE parser = "parse_artwork_from_api" ->
            parse_artwork_from_api(ApiBody(shape, illust), TargetId)
      [] parser = "_build_artwork_response" -> _build_artwork_response(illust, TargetId)
      [] parser = "parse_artwork_from_meta_preload" ->
            parse_artwork_from_meta_preload(MetaBody(shape, illust, TargetId), TargetId)
      [] parser = "parse_artwork_from_next_data" ->
            parse_artwork_from_next_data(NextBody(shape, illust, TargetId), TargetId)
      [] parser = "parse_artwork_from_html" ->
            parse_artwork_from_html([dom |-> illust], TargetId)

InitParsers == NoApp /\ fn = "none" /\ arg \in ParserInputs /\ ret = None

call_parse_artwork_from_api ==
    /\ arg.parser = "parse_artwork_from_api"
    /\ Apply("parse_artwork_from_api", Parsed("parse_artwork_from_api", arg.shape, arg.illust))

call_build_artwork_response ==
    /\ arg.parser = "_build_artwork_response"
    /\ Apply("_build_artwork_response", Parsed("_build_artwork_response", arg.shape, arg.illust))

call_parse_artwork_from_meta_preload ==
    /\ arg.parser = "parse_artwork_from_meta_preload"
    /\ Apply("parse_artwork_from_meta_preload", Parsed("parse_artwork_from_meta_preload", arg.shape, arg.illust))

call_parse_artwork_from_next_data ==
    /\ arg.parser = "parse_artwork_from_next_data"
    /\ Apply("parse_artwork_from_next_data", Parsed("parse_artwork_from_next_data", arg.shape, arg.illust))

call_parse_artwork_from_html ==
    /\ arg.parser = "parse_artwork_from_html"
    /\ Apply("parse_artwork_from_html", Parsed("parse_artwork_from_html", arg.shape, arg.illust))

NextParsers ==
    \/ call_parse_artwork_from_api
    \/ call_build_artwork_response
    \/ call_parse_artwork_from_meta_preload
    \/ call_parse_artwork_from_next_data
    \/ call_parse_artwork_from_html

SpecParsers == InitParsers /\ [][NextParsers]_vars

(***************************************************************************)
(* The client on its own: a PixivAppAPI is constructed, then auth() and    *)
(* _request() are called on it, in any order and any number of times.  arg *)
(* keeps the client as it was before the call and the call's inputs, ret   *)
(* whether the call raised, calls what the call did.                       *)
(***************************************************************************)
RefreshTokens == {None, Some(""), Some("R0")}

ClientOps == {"illust_detail", "user_detail"}

InitAuth ==
    /\ \E rt \in RefreshTokens :
          /\ settings = [use_official_api |-> TRUE, pixiv_refresh_token |-> rt]
          /\ api_client = PixivAppAPI(rt)
    /\ pc = "boot"
    /\ req = NoRequest
    /\ artwork = NoArtwork
    /\ html = NoHtml
    /\ calls = <<>>
    /\ response = NoResponse
    /\ api_result = NoArtwork
    /\ fn = "none"
    /\ arg = None
    /\ ret = None

call_auth ==
    /\ \E resp \in AuthResponses :
          LET a == auth(api_client, resp) IN
          /\ arg' = [client |-> api_client, resp |-> resp]
          /\ api_client' = a.client
          /\ calls' = a.calls
          /\ ret' = [raised |-> a.raised]
    /\ fn' = "auth"
    /\ UNCHANGED <<settings, pc, req, artwork, html, response, api_result>>

call_request ==
    /\ \E op \in ClientOps, resp \in AuthResponses, http \in ListAnswers :
          LET r == request(api_client, op, resp, http) IN
          /\ arg' = [client |-> api_client, op |-> op, resp |-> resp, http |-> http]
          /\ api_client' = r.client
          /\ calls' = r.calls
          /\ ret' = [raised |-> r.raised]
    /\ fn' = "_request"
    /\ UNCHANGED <<settings, pc, req, artwork, html, response, api_result>>

NextAuth == call_auth \/ call_request

SpecAuth == InitAuth /\ [][NextAuth]_vars

(***************************************************************************)
(* Properties.                                                             *)
(***************************************************************************)
Called(op) == \E i \in DOMAIN calls : calls[i].op = op
CalledWith(op, ok) == \E i \in DOMAIN calls : calls[i] = Call(op, ok)

IsArtworkRequest == req # NoRequest /\ req.route = "artwork"

ParserOps ==
    {"parse_artwork_from_meta_preload", "parse_artwork_from_next_data", "parse_artwork_from_html"}
ScraperOps ==
    ParserOps \cup {"fetch_html", "extract_meta_preload_json", "extract_next_data_json"}
ScraperPcs == {"fetch", "meta", "next", "html"}
ApiOps ==
    {"api_client.get_artwork", "api_client.illust_related", "auth", "illust_detail",
     "illust_related"}

Rank(op) ==
    CASE op = "parse_artwork_from_meta_preload" -> 1
      [] op = "parse_artwork_from_next_data" -> 2
      [] op = "parse_artwork_from_html" -> 3

\* the record without its related-artwork enrichment
Base(a) == [a EXCEPT !.related_artworks = <<>>]

\* what each parser makes of the fetched page
MetaRecord(h, id) ==
    IF JsonTruthy(extract_meta_preload_json(h))
    THEN parse_artwork_from_meta_preload(extract_meta_preload_json(h), id)
    ELSE NoArtwork
NextRecord(h, id) ==
    IF NextDataTruthy(extract_next_data_json(h))
    THEN parse_artwork_from_next_data(extract_next_data_json(h), id)
    ELSE NoArtwork
FirstNonNull(h, id) ==
    IF MetaRecord(h, id) # NoArtwork THEN MetaRecord(h, id)
    ELSE IF NextRecord(h, id) # NoArtwork THEN NextRecord(h, id)
    ELSE parse_artwork_from_html(h, id)
ScraperRecord(h, id) == IF HtmlTruthy(h) THEN FirstNonNull(h, id) ELSE NoArtwork

\* C1: in a GET /artworks/{id} request, once the official API client has
\* returned a record, no scraper operation (page fetch, extractor, parser)
\* is invoked in that request, and the request ends 200 with that record.
C1_ApiRecordSkipsScraper ==
    (IsArtworkRequest /\ api_result # NoArtwork) =>
        /\ \A i \in DOMAIN calls : calls[i].op \notin ScraperOps
        /\ pc \notin ScraperPcs
        /\ pc = "idle" => (response.status = 200 /\ Base(response.artwork) = api_result)

C1_Witness ==
    /\ IsArtworkRequest
    /\ pc = "idle"
    /\ api_result # NoArtwork
    /\ response.status = 200
    /\ Called("illust_detail")

\* C2: PixivScraper.get_artwork invokes the preload-meta parser, the
\* hydration parser and the HTML parser in that order, a later one only
\* after every earlier one yielded null (its extractor found nothing or its
\* parser returned None), and it returns the first non-null record.
C2_ParserOrder ==
    IsArtworkRequest =>
        /\ \A i, j \in DOMAIN calls :
              (i < j /\ calls[i].op \in ParserOps /\ calls[j].op \in ParserOps) =>
                  (Rank(calls[i].op) < Rank(calls[j].op) /\ ~calls[i].ok)
        /\ (Called("extract_next_data_json") \/ pc = "next") =>
              (Called("extract_meta_preload_json") /\ MetaRecord(html, req.artwork_id) = NoArtwork)
        /\ (Called("parse_artwork_from_html") \/ pc = "html") =>
              /\ Called("extract_meta_preload_json")
              /\ Called("extract_next_data_json")
              /\ MetaRecord(html, req.artwork_id) = NoArtwork
              /\ NextRecord(html, req.artwork_id) = NoArtwork
        /\ (pc \in {"respond", "idle"} /\ HtmlTruthy(html)) =>
              artwork = FirstNonNull(html, req.artwork_id)

C2_Witness ==
    /\ IsArtworkRequest
    /\ pc = "idle"
    /\ CalledWith("parse_artwork_from_meta_preload", FALSE)
    /\ CalledWith("parse_artwork_from_next_data", FALSE)
    /\ CalledWith("parse_artwork_from_html", TRUE)
    /\ response.status = 200

C4_ApiIffConfiguredAndNotForced ==
    IsArtworkRequest =>
        /\ (pc = "api" \/ Called("api_client.get_artwork")) <=>
              (api_client # NoClient /\ ~req.force_scraping)
        /\ req.force_scraping => \A i \in DOMAIN calls : calls[i].op \notin ApiOps

C4_Witness ==
    /\ IsArtworkRequest
    /\ pc = "idle"
    /\ req.force_scraping
    /\ api_client # NoClient
    /\ Called("fetch_html")
    /\ response.status = 200

\* C5: in a GET /artworks/{id} request the page HTML is fetched only after
\* the Ajax JSON endpoint has been attempted.
C5_AjaxBeforeHtml ==
    IsArtworkRequest =>
        \A i \in DOMAIN calls :
            calls[i].op = "fetch_html" => \E j \in 1..(i - 1) : calls[j].op = "ajax_illust"

\* C6: with include_related, when the official API returned a record and
\* the related-artwork fetch fails, the record is kept as the API returned
\* it, the scraper is not invoked and the request ends 200 with it.
C6_RelatedFailureKeepsRecord ==
    (IsArtworkRequest /\ CalledWith("api_client.illust_related", FALSE)) =>
        /\ req.include_related
        /\ api_result # NoArtwork
        /\ artwork = api_result
        /\ \A i \in DOMAIN calls : calls[i].op \notin ScraperOps
        /\ pc \in {"respond", "idle"}
        /\ pc = "idle" => response = Ok(api_result)

C6_Witness ==
    /\ IsArtworkRequest
    /\ pc = "idle"
    /\ CalledWith("illust_related", FALSE)
    /\ CalledWith("api_client.illust_related", FALSE)
    /\ response.status = 200

\* C7: when the official API attempt of a GET /artworks/{id} request fails
\* (its transport raises or it returns null), the scraper chain runs in the
\* same request and the response is the scraper's outcome: 200 with the
\* scraper's record, or 404 when it has none.
C7_ApiFailureFallsBack ==
    (IsArtworkRequest /\ CalledWith("api_client.get_artwork", FALSE)) =>
        /\ pc \in ScraperPcs \cup {"respond", "idle"}
        /\ pc # "fetch" => Called("fetch_html")
        /\ pc = "idle" =>
              response = IF ScraperRecord(html, req.artwork_id) # NoArtwork
                         THEN Ok(ScraperRecord(html, req.artwork_id))
                         ELSE HTTPException(404)

C7_Witness ==
    /\ IsArtworkRequest
    /\ pc = "idle"
    /\ CalledWith("illust_detail", FALSE)
    /\ CalledWith("api_client.get_artwork", FALSE)
    /\ Called("fetch_html")
    /\ response.status = 200

ApiOnlyRoutes == {"ranking", "search", "user_illusts", "recommended"}

\* C8: a request to /ranking, /search, /users/{id}/illusts or /recommended
\* while no official API client is configured ends 503 and makes no
\* upstream call.
C8_NoClientIs503 ==
    (req # NoRequest /\ req.route \in ApiOnlyRoutes /\ api_client = NoClient) =>
        (response = HTTPException(503) /\ calls = <<>>)

C8_Witness ==
    /\ req # NoRequest
    /\ req.route = "recommended"
    /\ api_client = NoClient
    /\ response.status = 503

\* C9: every response with status 500 carries the generic envelope with
\* both "error" and "detail", and a handler's own 404 / 503 outcome is not
\* turned into a 500.
C9_ErrorEnvelope ==
    response # NoResponse =>
        /\ response.status = 500 => response.keys = {"error", "detail"}
        /\ (req.route \in ApiOnlyRoutes /\ api_client = NoClient) => response.status = 503
        /\ (IsArtworkRequest /\ artwork = NoArtwork) => response.status = 404

\* C10: a non-null record is the final answer whatever its fields: once a
\* source (official API, preload-meta, hydration, HTML) has returned a
\* record, also one with no image and the default title, no later source
\* is tried and the request ends 200 with that record.
SourceOps == ParserOps \cup {"api_client.get_artwork"}

SourceRecord(op) ==
    CASE op = "api_client.get_artwork" -> api_result
      [] op = "parse_artwork_from_meta_preload" -> MetaRecord(html, req.artwork_id)
      [] op = "parse_artwork_from_next_data" -> NextRecord(html, req.artwork_id)
      [] op = "parse_artwork_from_html" -> parse_artwork_from_html(html, req.artwork_id)

Bare(a) == a # NoArtwork /\ (a.images = <<>> \/ a.title = Untitled)

C10_BareRecordAccepted ==
    IsArtworkRequest =>
        \A i \in DOMAIN calls :
            (calls[i].op \in SourceOps /\ calls[i].ok /\ Bare(SourceRecord(calls[i].op))) =>
                /\ \A j \in DOMAIN calls :
                      j > i => calls[j].op \notin SourceOps \cup ScraperOps
                /\ pc \in {"related", "respond", "idle"}
                /\ pc = "idle" =>
                      /\ response.status = 200
                      /\ Base(response.artwork) = SourceRecord(calls[i].op)

C10_Witness ==
    /\ IsArtworkRequest
    /\ pc = "idle"
    /\ CalledWith("parse_artwork_from_meta_preload", TRUE)
    /\ response.status = 200
    /\ response.artwork.images = <<>>
    /\ response.artwork.title = Untitled

\* C14: parse_stat_number returns a non-negative integer for every text,
\* the empty string, None, a text without digits and a text with a leading
\* minus sign included.
C14_NonNegative ==
    fn = "parse_stat_number" =>
        /\ ret >= 0
        /\ (arg = JNull \/ arg = JStr(<<>>)) => ret = 0
        /\ (arg # JNull /\ \A i \in DOMAIN arg.str : arg.str[i] \notin Digits) => ret = 0

\* the text without its thousands separators
NoSeparators(s) == SelectSeq(s, LAMBDA c : c # ",")

\* whether t is an integer or decimal numeral (digits, or digits.digits)
IsNumeral(t) ==
    \/ IsDigits(t)
    \/ \E p \in DOMAIN t :
          t[p] = "." /\ IsDigits(SubSeq(t, 1, p - 1)) /\ IsDigits(SubSeq(t, p + 1, Len(t)))

\* numeral t times factor, truncated to an integer
NumeralTimes(t, factor) ==
    LET digits == SelectSeq(t, LAMBDA c : c # ".")
        places == IF IsDigits(t) THEN 0 ELSE Len(t) - (CHOOSE p \in DOMAIN t : t[p] = ".")
    IN  (IntOfDigits(digits) * factor) \div Pow(10, places)

SuffixFactor(c) == IF c \in {"K", "k"} THEN Thousand ELSE Million

\* C15: parse_stat_number drops the thousands separators; a numeral
\* followed by K or k gives the number times 1,000 truncated to an integer,
\* followed by M the number times 1,000,000 truncated; a plain integer
\* numeral gives that integer.
C15_SuffixScales ==
    (fn = "parse_stat_number" /\ arg # JNull) =>
        LET t == NoSeparators(arg.str) IN
        /\ IsDigits(t) => ret = IntOfDigits(t)
        /\ (/\ Len(t) >= 2
            /\ t[Len(t)] \in {"K", "k", "M"}
            /\ IsNumeral(SubSeq(t, 1, Len(t) - 1))) =>
              ret = NumeralTimes(SubSeq(t, 1, Len(t) - 1), SuffixFactor(t[Len(t)]))

Marker(name) ==
    IF name = "extract_user_id_from_url" THEN "/users/" ELSE "/artworks/"

\* what an extractor returns for an id, and for no match
Found(name, n) == IF name = "extract_user_id_from_url" THEN n ELSE Some(n)
Sentinel(name) == IF name = "extract_user_id_from_url" THEN 0 ELSE None

\* the digits of s from position i up to the first non-digit
RunAt(s, i) ==
    LET ends == {j \in i..Len(s) :
                    /\ \A k \in i..j : s[k] \in Digits
                    /\ (j = Len(s) \/ s[j + 1] \notin Digits)}
    IN  IF ends = {} THEN <<>> ELSE SubSeq(s, i, CHOOSE j \in ends : TRUE)

Occurrences(s, marker) == {i \in DOMAIN s : s[i] = marker}
Least(S) == CHOOSE i \in S : \A j \in S : i <= j

PathIdCalls == {"extract_user_id_from_url", "extract_artwork_id_from_url"}

\* C16 as claimed: a path-ID extractor returns the value of the digits that
\* directly follow the FIRST occurrence of its marker, and the sentinel
\* when the text is empty or None, has no marker, or has no digit right
\* after that first occurrence.
C16_FirstOccurrence ==
    fn \in PathIdCalls =>
        LET marks == IF arg = JNull THEN {} ELSE Occurrences(arg.str, Marker(fn)) IN
        ret = IF marks # {} /\ RunAt(arg.str, Least(marks) + 1) # <<>>
              THEN Found(fn, IntOfDigits(RunAt(arg.str, Least(marks) + 1)))
              ELSE Sentinel(fn)

\* C16 as amended: a path-ID extractor returns the value of the digits
\* that directly follow the first occurrence of its marker that has a
\* digit right after it, and the sentinel (0 for users, None for artworks)
\* when the text is empty or None or no occurrence of the marker is
\* followed by a digit.
C16_FirstOccurrenceWithDigits ==
    fn \in PathIdCalls =>
        LET marks == IF arg = JNull THEN {}
                     ELSE {i \in Occurrences(arg.str, Marker(fn)) :
                              RunAt(arg.str, i + 1) # <<>>}
        IN  ret = IF marks # {}
                  THEN Found(fn, IntOfDigits(RunAt(arg.str, Least(marks) + 1)))
                  ELSE Sentinel(fn)

C16_Witness ==
    /\ fn = "extract_artwork_id_from_url"
    /\ arg = JStr(<<"/artworks/", "a", "/artworks/", "2">>)
    /\ ret = Some(2)

(***************************************************************************)
(* The parsers applied on their own (SpecParsers).                         *)
(***************************************************************************)
Parsers ==
    {"parse_artwork_from_api", "_build_artwork_response", "parse_artwork_from_meta_preload",
     "parse_artwork_from_next_data", "parse_artwork_from_html"}

\* a parser has been applied to a payload that holds an illust object (a soup)
ParserCall == fn \in Parsers /\ arg.illust # JNull

\* the key (the element) a parser reads the creation date from, and what
\* the payload holds when it has none
DateKey(parser) ==
    CASE parser = "parse_artwork_from_api" -> "create_date"
      [] parser = "parse_artwork_from_html" -> "time_datetime"
      [] OTHER -> "createDate"
NoDate(parser) == IF parser = "parse_artwork_from_html" THEN JNull ELSE JAbsent

\* creation dates that are no ISO date-time
MalformedDates == {JStr(<<"yesterday">>), JInt(5)}

\* C12: the four source parsers and the Ajax record builder never raise: on
\* any payload they return a record or null.  A malformed creation date is
\* ignored: the parser returns what it returns for the same payload without
\* the date, and if that is a record its timestamp is null.
C12_ParsersNeverRaise ==
    fn \in Parsers =>
        /\ ret # Raised
        /\ (ParserCall /\ arg.illust[DateKey(fn)] \in MalformedDates) =>
              /\ ret = Parsed(fn, arg.shape, [arg.illust EXCEPT ![DateKey(fn)] = NoDate(fn)])
              /\ ret # NoArtwork => ret.created_at = None

\* the page parser was given a page whose time element holds no date-time,
\* and returned a record without timestamp
C12_Witness ==
    /\ fn = "parse_artwork_from_html"
    /\ arg.illust.time_datetime = JStr(<<"yesterday">>)
    /\ ret # NoArtwork
    /\ ret.created_at = None
    /\ ret.title = <<"T">>

\* the shapes in which the illust object (the soup) is where its parser reads it
Holding ==
    {"illust", "flat", "map", "preload", "query_map", "query_id", "page", "preload_and_query",
     "id_before_map", "map_and_id"}

\* the payloads that hold every key their parser reads
Bases(parser) ==
    CASE parser = "parse_artwork_from_api" -> ApiBases
      [] parser = "parse_artwork_from_html" -> {FullDom}
      [] OTHER -> AjaxBases

\* the optional keys of a parser's payload, each with the fields of the
\* record that are made from it
OptionalFields(parser) ==
    CASE parser = "parse_artwork_from_api" ->
            { <<"title", {"title"}>>, <<"total_view", {"likes", "views"}>>,
              <<"total_bookmarks", {"bookmarks"}>>, <<"caption", {"description"}>>,
              <<"create_date", {"created_at"}>>, <<"page_count", {"page_count"}>> }
      [] parser = "parse_artwork_from_html" ->
            { <<"desc", {"description"}>>, <<"time_datetime", {"created_at"}>> }
      [] OTHER ->
            { <<"title", {"title"}>>, <<"likeCount", {"likes"}>>,
              <<"bookmarkCount", {"bookmarks"}>>, <<"viewCount", {"views"}>>,
              <<"description", {"description"}>>, <<"createDate", {"created_at"}>>,
              <<"pageCount", {"page_count"}>> }

\* the field of the record has its documented default
HasDefault(record, field) ==
    CASE field = "title" -> record.title = <<"Untitled">>
      [] field = "likes" -> record.stats.likes = 0
      [] field = "bookmarks" -> record.stats.bookmarks = 0
      [] field = "views" -> record.stats.views = 0
      [] field = "description" -> record.description = Some(<<>>)
      [] field = "created_at" -> record.created_at = None
      [] field = "page_count" -> record.page_count = 1

\* C13: a parser given a payload that holds every key but one optional one
\* (title, a count, description, creation date, page count), which is
\* missing or null, returns a record, and the fields made from that key have
\* their defaults: title 'Untitled', count 0, description '', timestamp
\* null, page count 1.
C13_DefaultForLackingField ==
    (ParserCall /\ arg.shape \in Holding) =>
        \A o \in OptionalFields(fn), v \in {JAbsent, JNull}, b \in Bases(fn) :
            arg.illust = Changed(b, <<o[1], v>>) =>
                /\ ret # NoArtwork
                /\ \A f \in o[2] : HasDefault(ret, f)

\* a parser has made a record of the payload
RecordMade == ParserCall /\ ret # NoArtwork

\* the tag strings of a payload, in its order: the names of the tag entries
\* that have one, the texts of the tag links that have one
SourceTags(parser, illust) ==
    IF parser = "parse_artwork_from_html"
    THEN SelectSeq(illust.tag_texts, LAMBDA t : t # <<>>)
    ELSE IF ~IsList(illust.tags) THEN <<>>
    ELSE LET named == SelectSeq(illust.tags.list, LAMBDA e : IsStr(e) /\ e.str # <<>>)
         IN  [i \in DOMAIN named |-> named[i].str]

NoDuplicates(seq) == \A i, j \in DOMAIN seq : i # j => seq[i] # seq[j]

\* seq without the entries that occurred before
FirstOccurrences(seq) ==
    LET firsts == {i \in DOMAIN seq : \A j \in 1..(i - 1) : seq[j] # seq[i]}
    IN  [k \in 1..Cardinality(firsts) |->
            seq[CHOOSE i \in firsts : Cardinality({j \in firsts : j < i}) = k - 1]]

\* C18: the tag list of a record made by any parser holds no string twice,
\* and holds the tag strings of the payload in the order of their first
\* occurrence.
C18_TagsWithoutDuplicates ==
    RecordMade =>
        /\ NoDuplicates(ret.tags)
        /\ ret.tags = FirstOccurrences(SourceTags(fn, arg.illust))

\* C19: the page count of a record made by any parser is 1 or the number of
\* the record's image entries, and is never 0.
C19_PageCountOneOrImages ==
    RecordMade =>
        /\ ret.page_count = 1 \/ ret.page_count = Len(ret.images)
        /\ ret.page_count # 0

\* the number a payload holds under a key; 0 when it holds none
CodeOf(illust, key) == IF IsInt(illust[key]) THEN illust[key].int ELSE 0

\* the second half of a parser's maturity rule: the sanity level of the
\* official API's payload, the marker among the tags of the record
SanityRule(illust) == CodeOf(illust, "sanity_level") >= 6
MarkerRule(record) == \E i \in DOMAIN record.tags : record.tags[i] = <<"R-18">>

ApiRecordMade == RecordMade /\ fn = "parse_artwork_from_api"
AjaxRecordMade ==
    RecordMade /\ fn \in Parsers \ {"parse_artwork_from_api", "parse_artwork_from_html"}

\* C20: the maturity flag of a record is true exactly when, for the parser
\* of the official API, the restriction code is nonzero or the sanity level
\* is at least 6, and for the Ajax record builder (behind the preload and
\* the hydration parser too), the restriction code is nonzero or the tag
\* list holds 'R-18'.
C20_MaturityRuleNonzero ==
    /\ ApiRecordMade =>
          (ret.is_r18 <=> CodeOf(arg.illust, "x_restrict") # 0 \/ SanityRule(arg.illust))
    /\ AjaxRecordMade =>
          (ret.is_r18 <=> CodeOf(arg.illust, "xRestrict") # 0 \/ MarkerRule(ret))

\* C20, amended: the same with a restriction code greater than zero in
\* place of a nonzero one.
C20_MaturityRulePositive ==
    /\ ApiRecordMade =>
          (ret.is_r18 <=> CodeOf(arg.illust, "x_restrict") > 0 \/ SanityRule(arg.illust))
    /\ AjaxRecordMade =>
          (ret.is_r18 <=> CodeOf(arg.illust, "xRestrict") > 0 \/ MarkerRule(ret))

\* the parser of the official API made a record whose flag the sanity level
\* alone sets, the restriction code being negative
C20_Witness ==
    /\ ApiRecordMade
    /\ arg.illust.x_restrict = JInt(0 - 1)
    /\ arg.illust.sanity_level = JInt(6)
    /\ ret.is_r18

(***************************************************************************)
(* The record builder within a request (Spec).                             *)
(***************************************************************************)
\* the first dehydrated query that holds the artwork, under its id in an
\* illust map or as its data
QueryHit(q, id) == MapHas(q.illust, id) \/ q.id \in {JInt(id), JStr(<<ToString(id)>>)}
FirstHit(queries, id) ==
    CHOOSE i \in DOMAIN queries :
        QueryHit(queries[i], id) /\ \A j \in 1..(i - 1) : ~QueryHit(queries[j], id)

\* the record of the request was built from the preload JSON, or else from
\* the hydration JSON
BuiltFromPreload == CalledWith("parse_artwork_from_meta_preload", TRUE)
BuiltFromNextData == CalledWith("parse_artwork_from_next_data", TRUE)
RecordBuilt == IsArtworkRequest /\ artwork # NoArtwork /\ (BuiltFromPreload \/ BuiltFromNextData)

\* the illust object the builder was given
BuilderPayload ==
    IF BuiltFromPreload THEN html.preload.json.illust.value
    ELSE IF MapHas(html.next.json.illust, req.artwork_id) THEN html.next.json.illust.value
    ELSE LET q == html.next.json.queries[FirstHit(html.next.json.queries, req.artwork_id)]
         IN  IF MapHas(q.illust, req.artwork_id) THEN q.illust.value ELSE q

\* url holds the page-0 marker "_p0" at the places k-2..k
MarkerEnds(url) ==
    {k \in DOMAIN url : k > 2 /\ url[k - 2] = "_" /\ url[k - 1] = "p" /\ url[k] = "0"}

\* url with the page-i marker where it holds the page-0 marker
WithPage(url, i) == [k \in DOMAIN url |-> IF k \in MarkerEnds(url) THEN ToString(i) ELSE url[k]]

\* a payload of n >= 2 pages whose template URL holds the page-0 marker
MultiPage(illust) ==
    /\ IsInt(illust.pageCount)
    /\ illust.pageCount.int >= 2
    /\ IsStr(illust.original)
    /\ MarkerEnds(illust.original.str) # {}

Fetches == {i \in DOMAIN calls : calls[i].op = "fetch_html"}

\* C17: from a payload of n >= 2 pages whose template URL holds the page-0
\* marker, the record builder makes exactly n image entries, the i-th
\* (counting from 0) with the template URL in which the page-i marker
\* stands for the page-0 marker; the request fetches the page once and no
\* image page.
C17_MultiPageSynthesis ==
    (RecordBuilt /\ MultiPage(BuilderPayload)) =>
        /\ Len(artwork.images) = BuilderPayload.pageCount.int
        /\ \A i \in DOMAIN artwork.images :
              artwork.images[i].url = WithPage(BuilderPayload.original.str, i - 1)
        /\ Cardinality(Fetches) = 1

\* a record of two pages was built from the preload JSON and answered
C17_Witness ==
    /\ RecordBuilt
    /\ BuiltFromPreload
    /\ BuilderPayload.pageCount = JInt(2)
    /\ Len(artwork.images) = 2
    /\ artwork.images[2].url =
          <<"https://", "i.pximg.net", "/", "img-original", "/", "141", "_", "p", "1", ".jpg">>
    /\ response # NoResponse
    /\ response.status = 200

\* the request for an artwork has been answered 200
ArtworkAnswered ==
    IsArtworkRequest /\ pc = "idle" /\ response # NoResponse /\ response.status = 200

\* C11: the record of a GET /artworks/{id} request answered 200 for an
\* artwork of one page, whatever source it came from, has at least one image
\* entry, and its likes, bookmarks and views are not negative.
C11_SinglePageHasImage ==
    (ArtworkAnswered /\ response.artwork.page_count = 1) =>
        /\ Len(response.artwork.images) >= 1
        /\ response.artwork.stats.likes >= 0
        /\ response.artwork.stats.bookmarks >= 0
        /\ response.artwork.stats.views >= 0

(***************************************************************************)
(* The stats of the HTML parser (SpecParsers).                             *)
(***************************************************************************)
HtmlRecordMade == RecordMade /\ fn = "parse_artwork_from_html"

\* the counts read from the first three stat elements of the page
FirstThree(dom) ==
    [likes |-> parse_stat_number(JStr(dom.stat_dds[1])),
     bookmarks |-> parse_stat_number(JStr(dom.stat_dds[2])),
     views |-> parse_stat_number(JStr(dom.stat_dds[3]))]

\* the count read from the element found by its title; 0 without one
Titled(dd) == IF dd = JNull THEN 0 ELSE parse_stat_number(dd)

MapPlace(m, id) == [holds |-> MapHas(m, id), value |-> IF MapHas(m, id) THEN m.value ELSE JNull]
DataPlace(q, id) == [holds |-> q.id \in {JInt(id), JStr(<<ToString(id)>>)}, value |-> q]

\* the places in the order they are looked at: the preload illust map, then
\* query by query its illust map and its data
Places(next_data, id) ==
    IF ~next_data.isdict THEN <<>>
    ELSE [k \in 1..(1 + 2 * Len(next_data.queries)) |->
            IF k = 1 THEN MapPlace(next_data.illust, id)
            ELSE IF k % 2 = 0 THEN MapPlace(next_data.queries[k \div 2].illust, id)
            ELSE DataPlace(next_data.queries[(k - 1) \div 2], id)]

HoldingPlaces(places) == {k \in DOMAIN places : places[k].holds}
FirstHolding(places) ==
    CHOOSE k \in HoldingPlaces(places) : \A j \in HoldingPlaces(places) : k <= j

NextDataCall == fn = "parse_artwork_from_next_data"
NextDataPlaces == Places(NextBody(arg.shape, arg.illust, TargetId), TargetId)

CountOf(illust, key) ==
    CASE illust[key] = JAbsent -> 0
      [] IsInt(illust[key]) -> illust[key].int
      [] illust[key] = JStr(<<"4">>) -> 4

Count(op) == Cardinality({i \in DOMAIN calls : calls[i].op = op})

\* the official API's detail call, the page fetch and the three parsers
OnceOps == {"api_client.get_artwork", "illust_detail", "fetch_html"} \cup ParserOps

\* C23: in one GET /artworks/{id} request the official API's detail call is
\* made at most once, the page is fetched at most once and each of the three
\* page parsers is invoked at most once; the page, the API's record and the
\* record of the request come from calls of this request, never from an
\* earlier one.
C23_EachSourceOnce ==
    IsArtworkRequest =>
        /\ \A op \in OnceOps : Count(op) <= 1
        /\ HtmlTruthy(html) => CalledWith("fetch_html", TRUE)
        /\ api_result # NoArtwork => CalledWith("api_client.get_artwork", TRUE)
        /\ artwork # NoArtwork => \E op \in SourceOps : CalledWith(op, TRUE)

\* a request that went through every source: the official API gave no
\* record, the page was fetched, and the third parser made the record
C23_Witness ==
    /\ IsArtworkRequest
    /\ pc = "idle"
    /\ response.status = 200
    /\ CalledWith("api_client.get_artwork", FALSE)
    /\ CalledWith("parse_artwork_from_html", TRUE)
    /\ \A op \in OnceOps : Count(op) = 1

(***************************************************************************)
(* The record after its construction (Spec).                               *)
(***************************************************************************)
\* the record as its parser constructed it in this request
Constructed ==
    IF api_result # NoArtwork THEN api_result ELSE ScraperRecord(html, req.artwork_id)

Enriched == req.include_related /\ CalledWith("api_client.illust_related", TRUE)

\* C24: the record returned equals the record its parser constructed but
\* for related_artworks, which is empty at construction and stays empty
\* unless include_related was asked, the record came from the official API
\* and the enrichment succeeded; the enrichment adds at most 10 entries.
C24_OnlyEnrichmentChangesRecord ==
    ArtworkAnswered =>
        /\ Constructed # NoArtwork
        /\ Constructed.related_artworks = <<>>
        /\ [response.artwork EXCEPT !.related_artworks = <<>>] = Constructed
        /\ Len(response.artwork.related_artworks) <= 10
        /\ (~Enriched \/ api_result = NoArtwork) => response.artwork = Constructed

\* a record of the official API returned with ten related ids
C24_Witness ==
    /\ ArtworkAnswered
    /\ api_result # NoArtwork
    /\ Enriched
    /\ response.artwork.related_artworks = <<1, 2, 3, 4, 5, 6, 7, 8, 9, 10>>
    /\ response.artwork # Constructed



\* what a call of _request found and did: whether a token was held when it
\* began, and where in the log the API request was sent
RequestCall == fn = "_request"
TokenHeld == StrTruthy(arg.client.access_token)
Sent == { i \in DOMAIN calls : calls[i].op = arg.op }

C28_FailedAuthChangesNothing ==
    fn = "auth" =>
        IF ret.raised THEN api_client = arg.client
        ELSE /\ api_client.access_token = arg.resp.access_token
             /\ api_client.refresh_token = arg.resp.refresh_token
             /\ api_client.user_id = arg.resp.user_id

UserAnswered == req # NoRequest /\ req.route = "user" /\ response # NoResponse

\* C25: GET /users/{id} asks the official API only when a client is
\* configured and force_scraping is false; when the API gave no answer (not
\* asked, or its call raised) the Ajax endpoint is asked and the response is
\* its data (200) or 404, never 500
C25_UserDetailFallsBackToAjax ==
    UserAnswered =>
        /\ ~UseOfficialApi(req.force_scraping, api_client) =>
              ~Called("user_detail") /\ ~Called("auth")
        /\ IF CalledWith("user_detail", TRUE)
           THEN response.status = 200 /\ ~Called("get_user_ajax")
           ELSE Called("get_user_ajax") /\ response.status \in {200, 404}

DownloadAnswered == req # NoRequest /\ req.route = "download" /\ response # NoResponse

\* the image a download request selects, and the URL asked of it
SelectedImage == IF req.page # None THEN artwork.images[req.page[1] + 1] ELSE artwork.images[1]
SelectedUrl ==
    IF req.thumbnail /\ SelectedImage.thumbnail # None THEN SelectedImage.thumbnail[1]
    ELSE SelectedImage.url

\* C26: GET /artworks/{id}/download answers 404 without a record, else 404
\* without images, else 404 for a page >= the number of images, else 400 for
\* no page and more than one image, else a descriptor (200) of the selected
\* image with its thumbnail URL when asked and present, else its original URL
C26_DownloadOutcomeOrder ==
    DownloadAnswered =>
        IF ~TruthyArtwork(artwork) THEN response.status = 404
        ELSE IF artwork.images = <<>> THEN response.status = 404
        ELSE IF req.page # None /\ req.page[1] >= Len(artwork.images) THEN response.status = 404
        ELSE IF req.page = None /\ Len(artwork.images) > 1 THEN response.status = 400
        ELSE /\ response.status = 200
             /\ response.url = SelectedUrl
====
